---- MODULE Spec2Model ----
(***************************************************************************)
(* Model of the dragon_chat_agent request-shaping pipeline:                *)
(*   - tools/build_tool_from_config.py  (_sanitize_tool_name,              *)
(*     build_tool_from_config)                                             *)
(*   - middleware/pre_agent_middleware.py (_build_runtime_tooling)         *)
(*   - utils/message_validator.py (validate_and_clean_messages)            *)
(*                                                                         *)
(* Strings are sequences of one-character strings, so that strip, regex    *)
(* substitution, slicing and prefixing are computed character by           *)
(* character as the Python code computes them.                             *)
(***************************************************************************)
EXTENDS Integers, Sequences, FiniteSets, TLC

VARIABLES
    raw_name,       \* sanitizer: the name passed to _sanitize_tool_name
    san_result,     \* sanitizer: the (sanitized, changed) pair returned
    san_pc,         \* sanitizer: "call" before the call, "returned" after
    tools,          \* context.tools: the ToolConfig list of the turn
    bi,             \* _build_runtime_tooling: index of the next config
    dynamic_tools,  \* _build_runtime_tooling: canonical name -> compiled tool
    tool_specs,     \* _build_runtime_tooling: provider-facing tool specs
    build_pc,       \* "loop", "returned", or "raised" (exception escaped)
    messages,       \* validate_and_clean_messages: the list being validated
    vi,             \* validate_and_clean_messages: the loop index i (1-based)
    cleaned,        \* validate_and_clean_messages: cleaned_messages so far
    cleaned_src,    \* for each element of cleaned: the index in messages of
                    \* the message appended, 0 for a ToolMessage created here
    val_pc,         \* "loop" or "returned"
    pass,           \* 1: first validation, 2: validation of the first result
    input0,         \* the list given to the first validation
    first_out,      \* the list returned by the first validation
    req,            \* turn: the ModelRequest travelling down the middleware chain
    ctx,            \* turn: request.runtime.context
    turn_pc,        \* turn: position inside the middleware at depth
    depth,          \* turn: index in Chain of the running middleware;
                    \* Len(Chain) + 1 is the model handler
    turn_log,       \* turn: the steps taken so far, in order
    handler_calls,  \* turn: per middleware, how often it called its handler
    results,        \* turn: per middleware, what it returned ("" = nothing yet)
    model_out,      \* turn: what the model handler returned or raised
    pr_config,      \* prompt: request.runtime.config
    pr_ctx,         \* prompt: request.runtime.context
    pr_out,         \* prompt: what inject_dynamic_prompt computed
    pr_pc,          \* prompt: "call" or "returned"
    ch_msgs,        \* choice: request_state["messages"]
    ch_specs,       \* choice: tool_specs
    ch_original,    \* choice: original_choice
    ch_out,         \* choice: what _resolve_tool_choice returned
    ch_pc,          \* choice: "call" or "returned"
    po_event,       \* post: what the HTTP call does (an exception or a response)
    po_out,         \* post: what _do_post returned or raised
    po_pc,          \* post: "call" or "returned"
    ar_props,       \* args: the schema (its property names in order, required, typed)
    ar_input,       \* args: the keyword arguments of the invocation
    ar_out,         \* args: the JSON body posted, or the exception
    ar_pc,          \* args: "call" or "returned"
    tc_ctx,         \* tool call: request.runtime.context
    tc_request,     \* tool call: the ToolCallRequest and what its callees do
    tc_log,         \* tool call: the calls made (handler, tool)
    tc_out,         \* tool call: what wrap_tool_call returned or raised
    tc_pc,          \* tool call: "call", "dispatch" or "returned"
    st_user,        \* store: user.identity
    st_namespace,   \* store: the namespace the caller supplied
    st_out,         \* store: what apply_user_namespace_scoping returned
    st_pc,          \* store: "call" or "returned"
    bo_cfg,         \* one build: the ToolConfig
    bo_out,         \* one build: the tool built, or the exception
    bo_log,         \* one build: the log records emitted
    bo_pc,          \* one build: "call" or "returned"
    kb_config,      \* knowledge tools: config["configurable"]
    kb_calls,       \* knowledge tools: the store calls made
    kb_out,         \* knowledge tools: what the tool returned
    kb_pc,          \* knowledge tools: "call" or "returned"
    pa_mode,        \* two dispatches: "tasks" (one event loop) or "threads"
    pa_ctx,         \* two dispatches: the context they share
    pa_reqs,        \* two dispatches: the ToolCallRequest of each
    pa_pc,          \* two dispatches: the position of each
    pa_tool,        \* two dispatches: the local variable tool of each
    pa_avail,       \* two dispatches: the local variable available_tools of each
    pa_out,         \* two dispatches: what each returned or raised
    eq_case,        \* both paths: the inputs given to the blocking and the non-blocking path
    eq_sync,        \* both paths: the outcome of the blocking path
    eq_async,       \* both paths: the outcome of the non-blocking path
    eq_pc,          \* both paths: which of the two paths have run
    adv_ctx,        \* advertised tools: the context of the turn
    adv_tools,      \* advertised tools: the tools on the request forwarded to the model
    adv_req,        \* advertised tools: the request wrap_model_call received
    adv_call,       \* advertised tools: the tool call made and how it was resolved
    adv_pc,         \* advertised tools: position in the turn
    dj_case,        \* body middleware: the request as the client sent it
    dj_scope,       \* body middleware: the ASGI scope
    dj_inbox,       \* body middleware: the messages the server has not handed out yet
    dj_parts,       \* body middleware: body_parts
    dj_processed,   \* body middleware: processed_body
    dj_recv,        \* body middleware: the receive callable given to the app
    dj_body_sent,   \* body middleware: body_sent of receive_wrapper
    dj_got,         \* body middleware: the messages the app got from its receive
    dj_pc           \* body middleware: position in __call__

vars == << raw_name, san_result, san_pc,
           tools, bi, dynamic_tools, tool_specs, build_pc,
           messages, vi, cleaned, cleaned_src, val_pc, pass, input0, first_out,
           req, ctx, turn_pc, depth, turn_log, handler_calls, results, model_out,
           pr_config, pr_ctx, pr_out, pr_pc,
           ch_msgs, ch_specs, ch_original, ch_out, ch_pc,
           po_event, po_out, po_pc,
           ar_props, ar_input, ar_out, ar_pc,
           tc_ctx, tc_request, tc_log, tc_out, tc_pc,
           st_user, st_namespace, st_out, st_pc,
           bo_cfg, bo_out, bo_log, bo_pc,
           kb_config, kb_calls, kb_out, kb_pc,
           pa_mode, pa_ctx, pa_reqs, pa_pc, pa_tool, pa_avail, pa_out,
           eq_case, eq_sync, eq_async, eq_pc,
           adv_ctx, adv_tools, adv_req, adv_call, adv_pc,
           dj_case, dj_scope, dj_inbox, dj_parts, dj_processed, dj_recv, dj_body_sent, dj_got, dj_pc >>

san_vars == << raw_name, san_result, san_pc >>
build_vars == << tools, bi, dynamic_tools, tool_specs, build_pc >>
val_vars == << messages, vi, cleaned, cleaned_src, val_pc, pass, input0, first_out >>
turn_vars == << req, ctx, turn_pc, depth, turn_log, handler_calls, results, model_out >>
\* The variables of the components other than the sanitizer, the tool
\* building loop and the validator.
prompt_vars == << pr_config, pr_ctx, pr_out, pr_pc >>
choice_vars == << ch_msgs, ch_specs, ch_original, ch_out, ch_pc >>
post_vars == << po_event, po_out, po_pc >>
args_vars == << ar_props, ar_input, ar_out, ar_pc >>
call_vars == << tc_ctx, tc_request, tc_log, tc_out, tc_pc >>
store_vars == << st_user, st_namespace, st_out, st_pc >>
one_vars == << bo_cfg, bo_out, bo_log, bo_pc >>
kb_vars == << kb_config, kb_calls, kb_out, kb_pc >>
pair_vars == << pa_mode, pa_ctx, pa_reqs, pa_pc, pa_tool, pa_avail, pa_out >>
eq_vars == << eq_case, eq_sync, eq_async, eq_pc >>
adv_vars == << adv_ctx, adv_tools, adv_req, adv_call, adv_pc >>
dj_vars == << dj_case, dj_scope, dj_inbox, dj_parts, dj_processed, dj_recv, dj_body_sent, dj_got, dj_pc >>
late_vars == << store_vars, one_vars, kb_vars, pair_vars, eq_vars, adv_vars, dj_vars >>
mid_vars == << turn_vars, prompt_vars, choice_vars, post_vars, args_vars, call_vars >>
ext_vars == << mid_vars, late_vars >>

(***************************************************************************)
(* Bounds of the model.                                                    *)
(***************************************************************************)
MaxNameLen == 4     \* every raw name of at most this many characters
MaxTools == 2       \* ToolConfigs per turn
MaxMsgs == 3        \* messages in the history given to the validator
MaxTurnTools == 1   \* ToolConfigs in the context of a modelled turn
MaxProps == 2       \* properties of a modelled schema
MaxArgs == 2        \* keyword arguments of a modelled invocation
MaxNsLen == 3       \* parts of a namespace supplied to the store
MaxTail == 2        \* messages after the filler messages of a turn's history

(***************************************************************************)
(* Characters and strings.                                                 *)
(***************************************************************************)
\* [A-Za-z]: "a" stands for any letter; "t", "o", "l" spell the fallback.
Letters == {"a", "t", "o", "l"}
Digits == {"7"}
\* The class [A-Za-z0-9_-] of the two regular expressions.
IsToolNameChar(c) == c \in Letters \cup Digits \cup {"_", "-"}
\* The characters raw names are drawn from: a letter, "_", "-", a blank, and
\* "n~" for any non-blank character outside the class (unicode, punctuation).
NameAlphabet == {"a", "_", "-", " ", "n~"}

TOOL == << "t", "o", "o", "l" >>

MaxToolNameLen == 64

\* The characters str.strip() removes: whitespace.
Whitespace == {" "}

\* str.lstrip(chars) / str.rstrip(chars) / str.strip(chars)
RECURSIVE LStrip(_, _)
LStrip(s, chars) ==
    IF s # << >> /\ Head(s) \in chars THEN LStrip(Tail(s), chars) ELSE s

RECURSIVE RStrip(_, _)
RStrip(s, chars) ==
    IF s # << >> /\ s[Len(s)] \in chars
    THEN RStrip(SubSeq(s, 1, Len(s) - 1), chars)
    ELSE s

Strip(s, chars) == RStrip(LStrip(s, chars), chars)

\* s[:n]
Take(s, n) == SubSeq(s, 1, IF Len(s) < n THEN Len(s) ELSE n)

\* The rest of s after its leading run of characters outside the class.
RECURSIVE SkipInvalidRun(_)
SkipInvalidRun(s) ==
    IF s # << >> /\ ~IsToolNameChar(Head(s)) THEN SkipInvalidRun(Tail(s)) ELSE s

\* re.sub(r"[^A-Za-z0-9_-]+", "_", s): every maximal run of characters
\* outside the class becomes one "_".
RECURSIVE SubInvalidRuns(_)
SubInvalidRuns(s) ==
    IF s = << >> THEN << >>
    ELSE IF IsToolNameChar(Head(s)) THEN << Head(s) >> \o SubInvalidRuns(Tail(s))
    ELSE << "_" >> \o SubInvalidRuns(SkipInvalidRun(s))

\* _OPENAI_TOOL_NAME_RE.match(s): ^[A-Za-z0-9_-]{1,64}$
MatchesToolNameRe(s) ==
    /\ Len(s) >= 1
    /\ Len(s) <= MaxToolNameLen
    /\ \A k \in 1..Len(s) : IsToolNameChar(s[k])

StartsWithDash(s) == s # << >> /\ Head(s) = "-"

(***************************************************************************)
(* _sanitize_tool_name                                                     *)
(***************************************************************************)
\* Mutant: strip("_-") instead of strip("_").
ReplaceAndStrip_StripDash(original) ==
    Strip(SubInvalidRuns(original), {"_", "-"})

\* Mutant: the strip("_") is left out.
ReplaceAndStrip_NoStrip(original) == SubInvalidRuns(original)

\* sanitized = re.sub(...); sanitized = sanitized.strip("_")
ReplaceAndStrip(original) == Strip(SubInvalidRuns(original), {"_"})

\* if sanitized.startswith("-"): sanitized = f"tool{sanitized}"[:64]
PrefixDash(s) ==
    IF StartsWithDash(s) THEN Take(TOOL \o s, MaxToolNameLen) ELSE s

\* The function after its early return: original is stripped and non-empty.
SanitizeNonEmpty(original) ==
    LET replaced == ReplaceAndStrip(original)
        nonempty == IF replaced = << >> THEN TOOL ELSE replaced
        sanitized == PrefixDash(Take(nonempty, MaxToolNameLen))
    IN  IF MatchesToolNameRe(sanitized)
        THEN [name |-> sanitized, changed |-> sanitized # original]
        ELSE [name |-> TOOL, changed |-> TRUE]

\* Mutant: the early return hands the empty name back as it came.
SanitizeToolName_EmptyPassthrough(name) ==
    LET original == Strip(name, Whitespace)
    IN  IF original = << >>
        THEN [name |-> original, changed |-> FALSE]
        ELSE SanitizeNonEmpty(original)

\* _sanitize_tool_name(name) -> (sanitized, changed)
SanitizeToolName(name) ==
    LET original == Strip(name, Whitespace)
    IN  IF original = << >>
        THEN [name |-> TOOL, changed |-> TRUE]
        ELSE SanitizeNonEmpty(original)

(***************************************************************************)
(* Raw names given to the sanitizer: every name of at most MaxNameLen      *)
(* characters, and names around the 64-character limit (a run of letters   *)
(* with at most one character before and after it).                        *)
(***************************************************************************)
SeqsUpTo(S, n) == UNION { [1..k -> S] : k \in 0..n }

Rep(c, n) == [k \in 1..n |-> c]

ShortNames == SeqsUpTo(NameAlphabet, MaxNameLen)

Affixes == SeqsUpTo(NameAlphabet, 1)

LongRunLens == (MaxToolNameLen - 2)..(MaxToolNameLen + 2)

LongNames == { p \o Rep("a", n) \o q : p \in Affixes, q \in Affixes, n \in LongRunLens }

RawNames == ShortNames \cup LongNames

EmptyMap == [n \in {} |-> n]

NoResult == [name |-> << >>, changed |-> FALSE]

\* The variables of the other components, at rest.
BuildIdle ==
    /\ tools = << >>
    /\ bi = 1
    /\ dynamic_tools = EmptyMap
    /\ tool_specs = << >>
    /\ build_pc = "idle"

ValIdle ==
    /\ messages = << >>
    /\ vi = 1
    /\ cleaned = << >>
    /\ cleaned_src = << >>
    /\ val_pc = "idle"
    /\ pass = 1
    /\ input0 = << >>
    /\ first_out = << >>

SanIdle ==
    /\ raw_name = << >>
    /\ san_result = NoResult
    /\ san_pc = "idle"

TurnIdle ==
    /\ req = << >>
    /\ ctx = << >>
    /\ turn_pc = "idle"
    /\ depth = 0
    /\ turn_log = << >>
    /\ handler_calls = << >>
    /\ results = << >>
    /\ model_out = ""

PromptIdle ==
    /\ pr_config = << >>
    /\ pr_ctx = << >>
    /\ pr_out = << >>
    /\ pr_pc = "idle"

ChoiceIdle ==
    /\ ch_msgs = << >>
    /\ ch_specs = << >>
    /\ ch_original = << >>
    /\ ch_out = << >>
    /\ ch_pc = "idle"

PostIdle ==
    /\ po_event = << >>
    /\ po_out = << >>
    /\ po_pc = "idle"

ArgsIdle ==
    /\ ar_props = << >>
    /\ ar_input = << >>
    /\ ar_out = << >>
    /\ ar_pc = "idle"

CallIdle ==
    /\ tc_ctx = << >>
    /\ tc_request = << >>
    /\ tc_log = << >>
    /\ tc_out = << >>
    /\ tc_pc = "idle"

StoreIdle ==
    /\ st_user = ""
    /\ st_namespace = << >>
    /\ st_out = << >>
    /\ st_pc = "idle"

OneIdle ==
    /\ bo_cfg = << >>
    /\ bo_out = << >>
    /\ bo_log = << >>
    /\ bo_pc = "idle"

KbIdle ==
    /\ kb_config = << >>
    /\ kb_calls = << >>
    /\ kb_out = << >>
    /\ kb_pc = "idle"

PairIdle ==
    /\ pa_mode = ""
    /\ pa_ctx = << >>
    /\ pa_reqs = << >>
    /\ pa_pc = << >>
    /\ pa_tool = << >>
    /\ pa_avail = << >>
    /\ pa_out = << >>

EqIdle ==
    /\ eq_case = << >>
    /\ eq_sync = << >>
    /\ eq_async = << >>
    /\ eq_pc = << >>

AdvIdle ==
    /\ adv_ctx = << >>
    /\ adv_tools = << >>
    /\ adv_req = << >>
    /\ adv_call = << >>
    /\ adv_pc = "idle"

DjIdle ==
    /\ dj_case = << >>
    /\ dj_scope = << >>
    /\ dj_inbox = << >>
    /\ dj_parts = << >>
    /\ dj_processed = << >>
    /\ dj_recv = "none"
    /\ dj_body_sent = FALSE
    /\ dj_got = << >>
    /\ dj_pc = "idle"

LateIdle == StoreIdle /\ OneIdle /\ KbIdle /\ PairIdle /\ EqIdle /\ AdvIdle /\ DjIdle
MidIdle == TurnIdle /\ PromptIdle /\ ChoiceIdle /\ PostIdle /\ ArgsIdle /\ CallIdle
ExtIdle == MidIdle /\ LateIdle

\* The components other than the prompt composer, and other than the turn.
base_vars == << san_vars, build_vars, val_vars >>
BaseIdle == SanIdle /\ BuildIdle /\ ValIdle
prompt_rest == << base_vars, turn_vars, choice_vars, post_vars, args_vars, call_vars, late_vars >>
PromptRestIdle == BaseIdle /\ TurnIdle /\ ChoiceIdle /\ PostIdle /\ ArgsIdle /\ CallIdle /\ LateIdle
turn_rest == << base_vars, prompt_vars, choice_vars, post_vars, args_vars, call_vars, late_vars >>
TurnRestIdle == BaseIdle /\ PromptIdle /\ ChoiceIdle /\ PostIdle /\ ArgsIdle /\ CallIdle /\ LateIdle
choice_rest == << base_vars, turn_vars, prompt_vars, post_vars, args_vars, call_vars, late_vars >>
ChoiceRestIdle == BaseIdle /\ TurnIdle /\ PromptIdle /\ PostIdle /\ ArgsIdle /\ CallIdle /\ LateIdle
post_rest == << base_vars, turn_vars, prompt_vars, choice_vars, args_vars, call_vars, late_vars >>
PostRestIdle == BaseIdle /\ TurnIdle /\ PromptIdle /\ ChoiceIdle /\ ArgsIdle /\ CallIdle /\ LateIdle
args_rest == << base_vars, turn_vars, prompt_vars, choice_vars, post_vars, call_vars, late_vars >>
ArgsRestIdle == BaseIdle /\ TurnIdle /\ PromptIdle /\ ChoiceIdle /\ PostIdle /\ CallIdle /\ LateIdle
call_rest == << base_vars, turn_vars, prompt_vars, choice_vars, post_vars, args_vars, late_vars >>
CallRestIdle == BaseIdle /\ TurnIdle /\ PromptIdle /\ ChoiceIdle /\ PostIdle /\ ArgsIdle /\ LateIdle
store_rest == << base_vars, mid_vars, one_vars, kb_vars, pair_vars, eq_vars, adv_vars, dj_vars >>
StoreRestIdle == BaseIdle /\ MidIdle /\ OneIdle /\ KbIdle /\ PairIdle /\ EqIdle /\ AdvIdle /\ DjIdle
one_rest == << base_vars, mid_vars, store_vars, kb_vars, pair_vars, eq_vars, adv_vars, dj_vars >>
OneRestIdle == BaseIdle /\ MidIdle /\ StoreIdle /\ KbIdle /\ PairIdle /\ EqIdle /\ AdvIdle /\ DjIdle
kb_rest == << base_vars, mid_vars, store_vars, one_vars, pair_vars, eq_vars, adv_vars, dj_vars >>
KbRestIdle == BaseIdle /\ MidIdle /\ StoreIdle /\ OneIdle /\ PairIdle /\ EqIdle /\ AdvIdle /\ DjIdle
pair_rest == << base_vars, mid_vars, store_vars, one_vars, kb_vars, eq_vars, adv_vars, dj_vars >>
PairRestIdle == BaseIdle /\ MidIdle /\ StoreIdle /\ OneIdle /\ KbIdle /\ EqIdle /\ AdvIdle /\ DjIdle
eq_rest == << base_vars, mid_vars, store_vars, one_vars, kb_vars, pair_vars, adv_vars, dj_vars >>
EqRestIdle == BaseIdle /\ MidIdle /\ StoreIdle /\ OneIdle /\ KbIdle /\ PairIdle /\ AdvIdle /\ DjIdle
adv_rest == << base_vars, mid_vars, store_vars, one_vars, kb_vars, pair_vars, eq_vars, dj_vars >>
AdvRestIdle == BaseIdle /\ MidIdle /\ StoreIdle /\ OneIdle /\ KbIdle /\ PairIdle /\ EqIdle /\ DjIdle
dj_rest == << base_vars, mid_vars, store_vars, one_vars, kb_vars, pair_vars, eq_vars, adv_vars >>
DjRestIdle == BaseIdle /\ MidIdle /\ StoreIdle /\ OneIdle /\ KbIdle /\ PairIdle /\ EqIdle /\ AdvIdle

InitSan ==
    /\ raw_name \in RawNames
    /\ san_result = NoResult
    /\ san_pc = "call"
    /\ BuildIdle
    /\ ValIdle
    /\ ExtIdle

\* One call of _sanitize_tool_name(raw_name).
Sanitize ==
    /\ san_pc = "call"
    /\ san_result' = SanitizeToolName(raw_name)
    /\ san_pc' = "returned"
    /\ UNCHANGED << raw_name, build_vars, val_vars, ext_vars >>

NextSan == Sanitize

SpecSan == InitSan /\ [][NextSan]_vars

(***************************************************************************)
(* Claims about _sanitize_tool_name.                                       *)
(***************************************************************************)
\* The pattern ^[A-Za-z0-9_-]{1,64}$ as the claims state it.
IsProviderIdentifier(s) ==
    /\ Len(s) \in 1..64
    /\ \A k \in 1..Len(s) : s[k] \in {"a", "t", "o", "l", "7", "_", "-"}

\* C1: for every raw name (empty, blank, with spaces, unicode or
\* punctuation, longer than 64 characters, starting with "-") the call
\* returns, and the returned name matches ^[A-Za-z0-9_-]{1,64}$.
C1_SanitizedNameIsIdentifier ==
    san_pc = "returned" => IsProviderIdentifier(san_result.name)

\* A name longer than 64 characters that starts with "-" was sanitized.
C1_Witness ==
    /\ san_pc = "returned"
    /\ Len(raw_name) > 64
    /\ Head(raw_name) = "-"
    /\ Len(san_result.name) = 64

\* C2 as stated: every name that already matches the pattern comes back
\* unchanged with changed = false.
C2_ValidNameUnchanged ==
    (san_pc = "returned" /\ IsProviderIdentifier(raw_name))
        => (san_result.name = raw_name /\ san_result.changed = FALSE)

HasNoEdgeUnderscoreOrLeadingDash(s) ==
    /\ s # << >>
    /\ Head(s) \notin {"_", "-"}
    /\ s[Len(s)] # "_"

\* C2 amended: a name that matches the pattern, neither begins nor ends
\* with "_" and does not begin with "-", comes back unchanged with
\* changed = false.
C2_ValidPlainNameUnchanged ==
    (san_pc = "returned" /\ IsProviderIdentifier(raw_name)
        /\ HasNoEdgeUnderscoreOrLeadingDash(raw_name))
        => (san_result.name = raw_name /\ san_result.changed = FALSE)

\* A valid name with an inner "_" and a trailing "-" was sanitized.
C2_Witness ==
    /\ san_pc = "returned"
    /\ raw_name = << "a", "_", "a", "-" >>
    /\ san_result.changed = FALSE

\* C3: a raw name that is empty, blank, or made only of underscores and
\* characters outside [A-Za-z0-9_-] yields the fallback "tool", changed = true.
C3_DegenerateNameFallsBack ==
    (san_pc = "returned" /\ \A k \in 1..Len(raw_name) : raw_name[k] \in {" ", "_", "n~"})
        => (san_result.name = << "t", "o", "o", "l" >> /\ san_result.changed = TRUE)

\* A name of underscores around a non-ASCII character fell back to "tool".
C3_Witness ==
    /\ san_pc = "returned"
    /\ raw_name = << "_", "n~", "_" >>
    /\ san_result.name = << "t", "o", "o", "l" >>

(***************************************************************************)
(* build_tool_from_config and PreAgentMiddleware._build_runtime_tooling    *)
(*                                                                         *)
(* A ToolConfig entry of context.tools is a record:                        *)
(*   is_dict   the entry is a dict (a mapping)                             *)
(*   has_name  the dict has the key "name"                                 *)
(*   name      cfg["name"]                                                 *)
(*   url       urlparse(cfg["url"]): its scheme and netloc                 *)
(*   schema    cfg["schema"]: "object" (a dict), "absent", "list" (a       *)
(*             non-empty non-dict value), "empty_list" (a falsy non-dict)  *)
(***************************************************************************)
NotAMapping ==
    [is_dict |-> FALSE, has_name |-> FALSE, name |-> << >>,
     url |-> [scheme |-> "", netloc |-> ""], schema |-> "absent"]

ConfigNames == { << "a" >>, << "a", " ", "a" >>, << " ", "a" >>, << >> }

ConfigUrls == { [scheme |-> "https", netloc |-> "h"],
                [scheme |-> "ftp", netloc |-> "h"] }

ConfigSchemas == { "object", "absent", "list", "empty_list" }

DictConfigs ==
    { [is_dict |-> TRUE, has_name |-> hn, name |-> n, url |-> u, schema |-> s] :
        hn \in BOOLEAN, n \in ConfigNames, u \in ConfigUrls, s \in ConfigSchemas }

\* A dict without the key "name" has no cfg["name"] to vary.
ToolConfigs ==
    { c \in DictConfigs : c.has_name \/ c.name = << >> } \cup { NotAMapping }

\* _validate_url: no exception iff scheme in {http, https} and netloc non-empty.
ValidUrl(url) == url.scheme \in {"http", "https"} /\ url.netloc # ""

\* cfg.get("schema") or {...default...}, then isinstance(schema, dict)
SchemaIsDict(schema) ==
    schema \in {"object", "absent", "null", "empty_object", "empty_list",
                "empty_string", "zero", "false"}

\* str(cfg.get("name") or "")
RawNameOf(cfg) == IF cfg.has_name THEN cfg.name ELSE << >>

\* build_tool_from_config(cfg): the tool, or the exception it raises.
BuildToolFromConfig(cfg) ==
    IF ~cfg.is_dict THEN [raised |-> "TypeError", name |-> << >>, original_name |-> << >>]
    ELSE LET san == SanitizeToolName(RawNameOf(cfg))
         IN  IF ~ValidUrl(cfg.url)
             THEN [raised |-> "ValueError", name |-> << >>, original_name |-> << >>]
             ELSE IF ~SchemaIsDict(cfg.schema)
             THEN [raised |-> "TypeError", name |-> << >>, original_name |-> << >>]
             ELSE [raised |-> "", name |-> san.name, original_name |-> RawNameOf(cfg)]

\* _to_llm_tool_spec(cfg): cfg["name"] raises KeyError when the key is absent.
SpecRaises(cfg) == ~cfg.has_name

ToLlmToolSpec(cfg) ==
    [type |-> "function", function |-> [name |-> cfg.name]]

\* The except handler evaluates cfg.get("name"): AttributeError when cfg is
\* not a dict.
HandlerRaises(cfg) == ~cfg.is_dict

\* dynamic_tools[tool.name] = tool
MapPut(m, k, v) == [n \in DOMAIN m \cup {k} |-> IF n = k THEN v ELSE m[n]]

InitBuild ==
    /\ tools \in SeqsUpTo(ToolConfigs, MaxTools)
    /\ bi = 1
    /\ dynamic_tools = EmptyMap
    /\ tool_specs = << >>
    /\ build_pc = "loop"
    /\ SanIdle
    /\ ValIdle
    /\ ExtIdle

\* Loop body: the build raised and the handler logged it; continue.
BuildSkip ==
    /\ build_pc = "loop"
    /\ bi <= Len(tools)
    /\ BuildToolFromConfig(tools[bi]).raised # ""
    /\ ~HandlerRaises(tools[bi])
    /\ bi' = bi + 1
    /\ UNCHANGED << tools, dynamic_tools, tool_specs, build_pc, san_vars, val_vars, ext_vars >>

\* Loop body: the tool was built, stored and its spec appended.
BuildAdd ==
    /\ build_pc = "loop"
    /\ bi <= Len(tools)
    /\ LET tool == BuildToolFromConfig(tools[bi])
       IN  /\ tool.raised = ""
           /\ ~SpecRaises(tools[bi])
           /\ dynamic_tools' = MapPut(dynamic_tools, tool.name,
                                      [name |-> tool.name,
                                       original_name |-> tool.original_name,
                                       cfg_index |-> bi])
           /\ tool_specs' = Append(tool_specs,
                                   [spec |-> ToLlmToolSpec(tools[bi]), cfg_index |-> bi])
    /\ bi' = bi + 1
    /\ UNCHANGED << tools, build_pc, san_vars, val_vars, ext_vars >>

\* Loop body: an exception leaves _build_runtime_tooling, either from the
\* except handler or from _to_llm_tool_spec (which is outside the try).
BuildRaise ==
    /\ build_pc = "loop"
    /\ bi <= Len(tools)
    /\ LET tool == BuildToolFromConfig(tools[bi])
       IN  \/ /\ tool.raised # ""
              /\ HandlerRaises(tools[bi])
              /\ UNCHANGED dynamic_tools
           \/ /\ tool.raised = ""
              /\ SpecRaises(tools[bi])
              /\ dynamic_tools' = MapPut(dynamic_tools, tool.name,
                                         [name |-> tool.name,
                                          original_name |-> tool.original_name,
                                          cfg_index |-> bi])
    /\ build_pc' = "raised"
    /\ UNCHANGED << tools, bi, tool_specs, san_vars, val_vars, ext_vars >>

\* return dynamic_tools, tool_specs
BuildReturn ==
    /\ build_pc = "loop"
    /\ bi > Len(tools)
    /\ build_pc' = "returned"
    /\ UNCHANGED << tools, bi, dynamic_tools, tool_specs, san_vars, val_vars, ext_vars >>

NextBuild == BuildSkip \/ BuildAdd \/ BuildRaise \/ BuildReturn

SpecBuild == InitBuild /\ [][NextBuild]_vars

(***************************************************************************)
(* Claims about _build_runtime_tooling.                                    *)
(***************************************************************************)
\* C4: after _build_runtime_tooling returns, the function.name of every
\* tool spec equals the name of the compiled tool built from the same
\* ToolConfig (the sanitized canonical name).
C4_SpecNameIsCanonicalName ==
    build_pc = "returned" =>
        \A k \in 1..Len(tool_specs) :
            tool_specs[k].spec.function.name
                = BuildToolFromConfig(tools[tool_specs[k].cfg_index]).name

\* An entry the claim counts as valid: a mapping with a name, an http(s)
\* url with a host, and an object schema (or none).
IsValidEntry(cfg) ==
    /\ cfg.is_dict
    /\ cfg.has_name
    /\ cfg.url.scheme \in {"http", "https"}
    /\ cfg.url.netloc # ""
    /\ cfg.schema \in {"object", "absent"}

\* C5: building the turn's tools raises nothing, and once it has returned
\* every valid entry has its tool spec in the result, whatever its position.
C5_BuildNeverRaises ==
    /\ build_pc # "raised"
    /\ build_pc = "returned" =>
          \A i \in 1..Len(tools) :
              IsValidEntry(tools[i]) =>
                  \E k \in 1..Len(tool_specs) : tool_specs[k].cfg_index = i

\* The ToolConfigs of the turn are pairwise distinct.
DistinctConfigs ==
    \A i, j \in 1..Len(tools) : i # j => tools[i] # tools[j]

\* C24: for pairwise distinct ToolConfigs, once the build has returned every
\* tool spec has a dynamic_tools entry of its own (no two built configs
\* share a canonical name), so dynamic_tools has as many entries as there
\* are tool specs.
C24_CanonicalNamesUnique ==
    (build_pc = "returned" /\ DistinctConfigs) =>
        /\ \A k \in 1..Len(tool_specs) :
               \E n \in DOMAIN dynamic_tools :
                   dynamic_tools[n].cfg_index = tool_specs[k].cfg_index
        /\ Cardinality(DOMAIN dynamic_tools) = Len(tool_specs)

(***************************************************************************)
(* validate_and_clean_messages                                             *)
(*                                                                         *)
(* A message is a record: type "human", "ai" (AIMessage) or "tool"         *)
(* (ToolMessage); tool_calls, a sequence of [id, name] (id "" when the     *)
(* call carries no id); tool_call_id, name, content, status.               *)
(***************************************************************************)
HumanMsg ==
    [type |-> "human", tool_calls |-> << >>, tool_call_id |-> "", name |-> "",
     content |-> << "text" >>, status |-> ""]

AiMsg(calls) ==
    [type |-> "ai", tool_calls |-> calls, tool_call_id |-> "", name |-> "",
     content |-> << "text" >>, status |-> ""]

\* A ToolMessage as a tool run leaves it in the history.
ToolMsg(id, name) ==
    [type |-> "tool", tool_calls |-> << >>, tool_call_id |-> id, name |-> name,
     content |-> << "result" >>, status |-> "success"]

Call(id, name) == [id |-> id, name |-> name]

CallLists ==
    { << >>,
      << Call("a", "t1") >>,
      << Call("", "t1") >>,
      << Call("a", "t1"), Call("b", "t2") >>,
      << Call("a", "t1"), Call("a", "t2") >>,
      << Call("", "t1"), Call("b", "t2") >>,
      << Call("a", "t1"), Call("b", "t2"), Call("a", "t2") >> }

MsgAlphabet ==
    { HumanMsg } \cup { AiMsg(c) : c \in CallLists }
        \cup { ToolMsg("a", "t1"), ToolMsg("b", "t2"), ToolMsg("c", "t1") }

\* isinstance(message, AIMessage) and message.tool_calls
HasToolCalls(m) == m.type = "ai" /\ m.tool_calls # << >>

\* tool_call_info: {tc["id"]: {"id", "name"} for tc in tool_calls if tc["id"]};
\* a later call with the same id replaces the earlier entry.
ToolCallInfo(m) ==
    LET ids == { m.tool_calls[k].id : k \in 1..Len(m.tool_calls) } \ { "" }
        last(id) == CHOOSE k \in 1..Len(m.tool_calls) :
                        /\ m.tool_calls[k].id = id
                        /\ \A k2 \in 1..Len(m.tool_calls) :
                               m.tool_calls[k2].id = id => k2 <= k
    IN  [id \in ids |-> m.tool_calls[last(id)].name]

\* The index at which the forward scan from i stops: the next AIMessage,
\* or one past the end.
ScanEnd(msgs, i) ==
    LET ais == { j \in (i + 1)..Len(msgs) : msgs[j].type = "ai" }
    IN  IF ais = {} THEN Len(msgs) + 1
        ELSE CHOOSE j \in ais : \A j2 \in ais : j <= j2

\* Mutant: the scan does not stop at the next AIMessage.
FoundToolCallIds_NoBreak(msgs, i, tool_call_ids) ==
    { msgs[j].tool_call_id : j \in { j2 \in (i + 1)..Len(msgs) :
            /\ msgs[j2].type = "tool"
            /\ msgs[j2].tool_call_id \in tool_call_ids } }

\* Mutant: the scan starts at i + 2.
FoundToolCallIds_SkipNext(msgs, i, tool_call_ids) ==
    { msgs[j].tool_call_id : j \in { j2 \in (i + 2)..(ScanEnd(msgs, i) - 1) :
            /\ msgs[j2].type = "tool"
            /\ msgs[j2].tool_call_id \in tool_call_ids } }

\* found_tool_call_ids: the ids of the ToolMessages between i and the next
\* AIMessage that answer one of tool_call_ids.
FoundToolCallIds(msgs, i, tool_call_ids) ==
    { msgs[j].tool_call_id : j \in { j2 \in (i + 1)..(ScanEnd(msgs, i) - 1) :
            /\ msgs[j2].type = "tool"
            /\ msgs[j2].tool_call_id \in tool_call_ids } }

\* Mutant: every call id is treated as missing.
MissingToolCallIds_All(tool_call_ids, found) == tool_call_ids

\* missing_tool_call_ids = tool_call_ids - found_tool_call_ids
MissingToolCallIds(tool_call_ids, found) == tool_call_ids \ found

\* ToolMessage(content=f"... '{tool_name}' ...", tool_call_id=..., name=...):
\* no status is passed, so the message has ToolMessage's default status.
SynthToolMessage(tool_call_id, tool_name) ==
    [type |-> "tool", tool_calls |-> << >>, tool_call_id |-> tool_call_id,
     name |-> tool_name, content |-> << "tool_error", tool_name >>,
     status |-> "success"]

\* The orders in which the for loop may visit the set missing_tool_call_ids.
Orders(S) ==
    { o \in [1..Cardinality(S) -> S] : \A x \in S : \E k \in DOMAIN o : o[k] = x }

\* Mutant: an AIMessage whose tool calls carry no id is not appended.
Appended_DropIdless(msgs, i, order) ==
    IF HasToolCalls(msgs[i])
    THEN IF DOMAIN ToolCallInfo(msgs[i]) = {} THEN << >>
         ELSE << [msg |-> msgs[i], src |-> i] >>
              \o [k \in 1..Len(order) |->
                    [msg |-> SynthToolMessage(order[k], ToolCallInfo(msgs[i])[order[k]]),
                     src |-> 0]]
    ELSE << [msg |-> msgs[i], src |-> i] >>

\* What one iteration of the outer loop appends to cleaned_messages, the
\* missing ids being visited in the given order.
Appended(msgs, i, order) ==
    IF HasToolCalls(msgs[i])
    THEN << [msg |-> msgs[i], src |-> i] >>
         \o [k \in 1..Len(order) |->
               [msg |-> SynthToolMessage(order[k], ToolCallInfo(msgs[i])[order[k]]),
                src |-> 0]]
    ELSE << [msg |-> msgs[i], src |-> i] >>

\* The missing ids of message i (none when it is no AIMessage with calls).
MissingAt(msgs, i) ==
    IF HasToolCalls(msgs[i])
    THEN LET ids == DOMAIN ToolCallInfo(msgs[i])
         IN  MissingToolCallIds(ids, FoundToolCallIds(msgs, i, ids))
    ELSE {}

InitVal ==
    /\ messages \in SeqsUpTo(MsgAlphabet, MaxMsgs)
    /\ input0 = messages
    /\ vi = 1
    /\ cleaned = << >>
    /\ cleaned_src = << >>
    /\ val_pc = "loop"
    /\ pass = 1
    /\ first_out = << >>
    /\ SanIdle
    /\ BuildIdle
    /\ ExtIdle

\* One iteration of "for i, message in enumerate(messages)".
ValidateStep ==
    /\ val_pc = "loop"
    /\ vi <= Len(messages)
    /\ \E order \in Orders(MissingAt(messages, vi)) :
          LET app == Appended(messages, vi, order)
          IN  /\ cleaned' = cleaned \o [k \in 1..Len(app) |-> app[k].msg]
              /\ cleaned_src' = cleaned_src \o [k \in 1..Len(app) |-> app[k].src]
    /\ vi' = vi + 1
    /\ UNCHANGED << messages, val_pc, pass, input0, first_out, san_vars, build_vars, ext_vars >>

\* return cleaned_messages (for an empty list: return messages)
ValidateReturn ==
    /\ val_pc = "loop"
    /\ vi > Len(messages)
    /\ val_pc' = "returned"
    /\ first_out' = IF pass = 1 THEN cleaned ELSE first_out
    /\ UNCHANGED << messages, vi, cleaned, cleaned_src, pass, input0, san_vars, build_vars, ext_vars >>

\* The function is called again on the list it returned.
Revalidate ==
    /\ val_pc = "returned"
    /\ pass = 1
    /\ messages' = cleaned
    /\ vi' = 1
    /\ cleaned' = << >>
    /\ cleaned_src' = << >>
    /\ val_pc' = "loop"
    /\ pass' = 2
    /\ UNCHANGED << input0, first_out, san_vars, build_vars, ext_vars >>

NextVal == ValidateStep \/ ValidateReturn \/ Revalidate

SpecVal == InitVal /\ [][NextVal]_vars

(***************************************************************************)
(* Claims about validate_and_clean_messages.                               *)
(***************************************************************************)
\* The positions of cleaned that hold a message of the input.
OriginalPositions == { k \in 1..Len(cleaned) : cleaned_src[k] # 0 }

\* The positions of cleaned that hold a ToolMessage created by the validator.
SynthPositions == { k \in 1..Len(cleaned) : cleaned_src[k] = 0 }

IsErrorToolResult(m) ==
    /\ m.type = "tool"
    /\ m.tool_calls = << >>
    /\ Len(m.content) = 2
    /\ m.content[1] = "tool_error"

\* C6: the validator never deletes or reorders: the input is a subsequence
\* of the output (every input message appears once, in the input's order),
\* and every other output message is a synthesized tool-result.
C6_InputIsSubsequenceOfOutput ==
    val_pc = "returned" =>
        /\ { cleaned_src[k] : k \in OriginalPositions } = 1..Len(messages)
        /\ Cardinality(OriginalPositions) = Len(messages)
        /\ \A k \in OriginalPositions : cleaned[k] = messages[cleaned_src[k]]
        /\ \A k1, k2 \in OriginalPositions :
               k1 < k2 => cleaned_src[k1] < cleaned_src[k2]
        /\ \A k \in SynthPositions : IsErrorToolResult(cleaned[k])

\* An assistant message whose only call carries no id, an assistant message
\* with an unanswered call and a tool-result nobody asked for went through
\* the validator: all three were kept and one result was added.
C6_Witness ==
    /\ val_pc = "returned"
    /\ pass = 1
    /\ Len(messages) = 3
    /\ messages[1] = AiMsg(<< [id |-> "", name |-> "t1"] >>)
    /\ messages[2] = AiMsg(<< [id |-> "a", name |-> "t1"] >>)
    /\ messages[3].type = "tool"
    /\ messages[3].tool_call_id = "c"
    /\ Len(cleaned) = 4

\* The call ids of an assistant message: the ids its tool-calls carry.
CallIds(m) == { m.tool_calls[k].id : k \in 1..Len(m.tool_calls) } \ { "" }

\* The first assistant message after position i of list l, or one past the end.
NextAssistant(l, i) ==
    IF \E j \in (i + 1)..Len(l) : l[j].type = "ai"
    THEN CHOOSE j \in (i + 1)..Len(l) :
            /\ l[j].type = "ai"
            /\ \A j2 \in (i + 1)..(j - 1) : l[j2].type # "ai"
    ELSE Len(l) + 1

\* The positions of the tool-results with the given id after position i of
\* list l and before the next assistant message.
ResultsFor(l, i, id) ==
    { j \in (i + 1)..(NextAssistant(l, i) - 1) :
        l[j].type = "tool" /\ l[j].tool_call_id = id }

\* C7 as stated: in the output every assistant message with tool-calls has,
\* for each of its call ids, exactly one tool-result with that id after it
\* and before the next assistant message.
C7_ExactlyOneResultPerCall ==
    val_pc = "returned" =>
        \A i \in 1..Len(cleaned) :
            cleaned[i].type = "ai" =>
                \A id \in CallIds(cleaned[i]) :
                    Cardinality(ResultsFor(cleaned, i, id)) = 1

\* C7 amended: at least one such tool-result, and exactly one when the input
\* held at most one tool-result with that id in that span.
C7_AtLeastOneResultPerCall ==
    val_pc = "returned" =>
        \A i \in 1..Len(cleaned) :
            cleaned[i].type = "ai" =>
                \A id \in CallIds(cleaned[i]) :
                    /\ Cardinality(ResultsFor(cleaned, i, id)) >= 1
                    /\ Cardinality(ResultsFor(messages, cleaned_src[i], id)) <= 1
                          => Cardinality(ResultsFor(cleaned, i, id)) = 1

\* An assistant message whose call "a" is answered only after the next
\* assistant message came out with a synthesized result right after it.
C7_Witness ==
    /\ val_pc = "returned"
    /\ pass = 1
    /\ Len(messages) = 3
    /\ messages[1].type = "ai" /\ CallIds(messages[1]) = {"a"}
    /\ messages[2].type = "ai" /\ CallIds(messages[2]) = {}
    /\ messages[3].type = "tool" /\ messages[3].tool_call_id = "a"
    /\ Len(cleaned) = 4
    /\ cleaned_src[2] = 0

\* Every call id of every assistant message of l has a tool-result before
\* the next assistant message.
AllCallsAnswered(l) ==
    \A i \in 1..Len(l) :
        l[i].type = "ai" => \A id \in CallIds(l[i]) : ResultsFor(l, i, id) # {}

\* C8: validation is idempotent: validating the first result returns a list
\* equal to it; and a list in which every tool-call has its tool-result is
\* returned unchanged.
C8_Idempotent ==
    /\ (val_pc = "returned" /\ pass = 2) => cleaned = first_out
    /\ (val_pc = "returned" /\ pass = 1 /\ AllCallsAnswered(messages))
          => cleaned = messages

\* A history that needed two synthesized results was validated twice.
C8_Witness ==
    /\ val_pc = "returned"
    /\ pass = 2
    /\ Len(first_out) = Len(input0) + 2
    /\ Len(input0) >= 2

\* C9: for an assistant message of the input with call ids of which some
\* are unanswered, the output holds, immediately after that message, exactly
\* one synthesized tool-result per unanswered id and none for an answered
\* id, each with the id and the name of a call of that message; the next
\* output message is again a message of the input, and the input's order
\* is kept.
C9_OneSynthesizedPerUnmatchedCall ==
    (val_pc = "returned" /\ pass = 1) =>
        /\ \A p \in OriginalPositions :
              LET m == cleaned[p]
                  i == cleaned_src[p]
                  unmatched == { id \in CallIds(m) : ResultsFor(messages, i, id) = {} }
                  n == Cardinality(unmatched)
              IN  m.type = "ai" =>
                    /\ p + n <= Len(cleaned)
                    /\ \A k \in (p + 1)..(p + n) : cleaned_src[k] = 0
                    /\ { cleaned[k].tool_call_id : k \in (p + 1)..(p + n) } = unmatched
                    /\ \A k \in (p + 1)..(p + n) :
                          \E c \in 1..Len(m.tool_calls) :
                              /\ m.tool_calls[c].id = cleaned[k].tool_call_id
                              /\ m.tool_calls[c].name = cleaned[k].name
                    /\ p + n < Len(cleaned) => cleaned_src[p + n + 1] # 0
        /\ \A k \in SynthPositions : k > 1
        /\ \A k1, k2 \in OriginalPositions :
              k1 < k2 => cleaned_src[k1] < cleaned_src[k2]
        /\ \A k \in OriginalPositions : cleaned[k] = messages[cleaned_src[k]]

\* The assistant message calls "a" and "b", only "a" is answered, and one
\* result for "b" named "t2" was put between the message and the answer.
C9_Witness ==
    /\ val_pc = "returned"
    /\ pass = 1
    /\ Len(messages) = 2
    /\ messages[1] = AiMsg(<< [id |-> "a", name |-> "t1"], [id |-> "b", name |-> "t2"] >>)
    /\ messages[2].type = "tool" /\ messages[2].tool_call_id = "a"
    /\ Len(cleaned) = 3
    /\ cleaned_src = << 1, 0, 2 >>
    /\ cleaned[2].tool_call_id = "b"
    /\ cleaned[2].name = "t2"

\* C10: every tool-result the validator synthesizes has status "error".
C10_SynthesizedStatusIsError ==
    \A k \in SynthPositions : cleaned[k].status = "error"

(***************************************************************************)
(* inject_dynamic_prompt (middleware/dynamic_prompt.py) and the section    *)
(* builders of utils/context_builder.py.                                   *)
(*                                                                         *)
(* A prompt is a sequence of tokens; a token is a piece of text or one of  *)
(* the placeholders.  "{{datetime_context}}" is the three tokens "{",      *)
(* "{datetime_context}", "}": the single-brace placeholder is a substring  *)
(* of the double-brace one, and str.replace sees it there.                 *)
(*                                                                         *)
(* runtime.config: is_dict; prompt_is_dict (config["prompt"] is a dict);   *)
(* prompt_sp = config["prompt"]["system_prompt"]; sp =                     *)
(* config["system_prompt"].  An absent or None prompt is << >>.            *)
(* runtime.context: kind "ctx" (DragonAgentContext), "dict" or "none";     *)
(* system_prompt; metadata with the keys whatsapp_contact_name (name),     *)
(* whatsapp_contact_number (number), has_knowledge_base (kb) and one other *)
(* key (other), each "ABSENT" or a value.                                  *)
(***************************************************************************)
DEFAULT_SYSTEM_PROMPT == << "DEFAULT" >>

PH_DATETIME_CONTEXT == "{datetime_context}"
PH_CURRENT_DATETIME == "{current_datetime}"

NoConfig ==
    [is_dict |-> FALSE, prompt_is_dict |-> FALSE, prompt_sp |-> << >>, sp |-> << >>]

ConfigPrompts == { << >>, << "CFG" >> }
ConfigTopPrompts == { << >>, << "CFG2" >> }

RuntimeConfigs ==
    { NoConfig }
    \cup { [is_dict |-> TRUE, prompt_is_dict |-> FALSE, prompt_sp |-> << >>, sp |-> s] :
             s \in ConfigTopPrompts }
    \cup { [is_dict |-> TRUE, prompt_is_dict |-> TRUE, prompt_sp |-> q, sp |-> s] :
             q \in ConfigPrompts, s \in ConfigTopPrompts }

ContextPrompts ==
    { << >>,
      << "CTX" >>,
      << "CTX", PH_DATETIME_CONTEXT, "CTX_TAIL" >>,
      << "CTX", "{", PH_DATETIME_CONTEXT, "}" >>,
      << "CTX", PH_CURRENT_DATETIME >>,
      << "CTX", "{", PH_CURRENT_DATETIME, "}" >> }

NoMetadata ==
    [name |-> "ABSENT", number |-> "ABSENT", kb |-> "ABSENT", other |-> "ABSENT"]

Metadatas ==
    [name : {"ABSENT", "EMPTY", "N"}, number : {"ABSENT", "NUM"},
     kb : {"ABSENT", "TRUE", "FALSE"}, other : {"ABSENT", "V"}]

NoContext ==
    [kind |-> "none", system_prompt |-> << >>, metadata |-> NoMetadata,
     tools |-> << >>, dynamic_tools |-> EmptyMap]

PromptContexts ==
    { NoContext }
    \cup { [kind |-> k, system_prompt |-> s, metadata |-> m,
            tools |-> << >>, dynamic_tools |-> EmptyMap] :
             k \in {"ctx", "dict"}, s \in ContextPrompts, m \in Metadatas }

\* x in prompt (substring test, on tokens)
Contains(prompt, tok) == \E k \in 1..Len(prompt) : prompt[k] = tok

\* prompt.replace(tok, by)
RECURSIVE Replace(_, _, _)
Replace(prompt, tok, by) ==
    IF prompt = << >> THEN << >>
    ELSE IF Head(prompt) = tok THEN by \o Replace(Tail(prompt), tok, by)
    ELSE << Head(prompt) >> \o Replace(Tail(prompt), tok, by)

\* The prompt found in runtime.config (lines 37-44), << >> when none.
ConfigPromptOf(config) ==
    IF ~config.is_dict THEN << >>
    ELSE IF config.prompt_is_dict /\ config.prompt_sp # << >> THEN config.prompt_sp
    ELSE IF config.sp # << >> THEN config.sp
    ELSE << >>

\* base_prompt after line 57: the configuration's prompt, overwritten by
\* ctx.system_prompt whenever the context is a DragonAgentContext or a
\* dict, replaced by the default when empty.
BasePromptOf(config, c) ==
    LET from_config == ConfigPromptOf(config)
        from_ctx == IF c.kind \in {"ctx", "dict"} THEN c.system_prompt ELSE from_config
    IN  IF from_ctx = << >> THEN DEFAULT_SYSTEM_PROMPT ELSE from_ctx

\* "if not metadata": an empty dict.
MetadataEmpty(m) == m = NoMetadata

\* build_user_context_section(metadata)
BuildUserContextSection(m) ==
    LET has_name == m.name = "N"
        has_number == m.number = "NUM"
        user_part == IF has_name \/ has_number
                     THEN << "## Datos del usuario:" >>
                          \o (IF has_name THEN << "Nombre: N" >> ELSE << >>)
                          \o (IF has_number THEN << "Numero de contacto: NUM" >> ELSE << >>)
                     ELSE << >>
        other_part == IF m.kb # "ABSENT" \/ m.other # "ABSENT"
                      THEN << "## Informacion adicional:" >>
                           \o (IF m.kb # "ABSENT" THEN << "has_knowledge_base", m.kb >> ELSE << >>)
                           \o (IF m.other # "ABSENT" THEN << "other", m.other >> ELSE << >>)
                      ELSE << >>
        parts == user_part \o other_part
    IN  IF MetadataEmpty(m) \/ parts = << >> THEN << >>
        ELSE << "UC_BEGIN" >> \o parts \o << "UC_END" >>

\* build_datetime_context_section(current_datetime)
BuildDatetimeContextSection(now) == << "## Informacion de contexto:", now >>

\* build_knowledge_base_instructions(has_knowledge_base)
BuildKnowledgeBaseInstructions(has_kb) ==
    IF has_kb THEN << "## Instrucciones de Base de Conocimientos" >> ELSE << >>

\* metadata.get("has_knowledge_base", False), as a truth value
HasKnowledgeBase(c) ==
    /\ c.kind \in {"ctx", "dict"}
    /\ ~MetadataEmpty(c.metadata)
    /\ c.metadata.kb = "TRUE"

\* inject_dynamic_prompt(request), the clock reading now: the prompt
\* returned, with the base prompt chosen and the insertion mode logged.
InjectDynamicPrompt(config, c, now) ==
    LET base == BasePromptOf(config, c)
        user_context == IF c.kind \in {"ctx", "dict"} /\ ~MetadataEmpty(c.metadata)
                        THEN BuildUserContextSection(c.metadata) ELSE << >>
        datetime_context == BuildDatetimeContextSection(now)
        knowledge == BuildKnowledgeBaseInstructions(HasKnowledgeBase(c))
        has_ctx_ph == Contains(base, PH_DATETIME_CONTEXT)
        base1 == IF has_ctx_ph
                 THEN Replace(base, PH_DATETIME_CONTEXT, datetime_context) ELSE base
        has_now_ph == Contains(base1, PH_CURRENT_DATETIME)
        base2 == IF has_now_ph
                 THEN Replace(base1, PH_CURRENT_DATETIME, << now >>) ELSE base1
        mode == IF has_now_ph THEN "replaced_value"
                ELSE IF has_ctx_ph THEN "replaced_section" ELSE "appended"
    IN  [prompt |-> base2 \o user_context
                    \o (IF mode = "appended" THEN datetime_context ELSE << >>)
                    \o knowledge,
         base |-> base,
         insertion_mode |-> mode]

InitPrompt ==
    /\ pr_config \in RuntimeConfigs
    /\ pr_ctx \in PromptContexts
    /\ pr_out = << >>
    /\ pr_pc = "call"
    /\ PromptRestIdle

\* One call of inject_dynamic_prompt.
ComposePrompt ==
    /\ pr_pc = "call"
    /\ pr_out' = InjectDynamicPrompt(pr_config, pr_ctx, "NOW")
    /\ pr_pc' = "returned"
    /\ UNCHANGED << pr_config, pr_ctx, prompt_rest >>

NextPrompt == ComposePrompt

SpecPrompt == InitPrompt /\ [][NextPrompt]_vars

(***************************************************************************)
(* Claims about inject_dynamic_prompt.                                     *)
(***************************************************************************)
\* The prompt embedded in the configuration object, << >> when none.
EmbeddedPrompt(config) ==
    IF config.is_dict /\ config.prompt_is_dict /\ config.prompt_sp # << >>
    THEN config.prompt_sp
    ELSE IF config.is_dict THEN config.sp ELSE << >>

\* C20: the base instructions are the first non-empty of (1) the prompt
\* embedded in the configuration object, (2) the context's system_prompt,
\* (3) the default text.
C20_FirstNonEmptySourceWins ==
    pr_pc = "returned" =>
        pr_out.base =
            IF EmbeddedPrompt(pr_config) # << >> THEN EmbeddedPrompt(pr_config)
            ELSE IF pr_ctx.system_prompt # << >> THEN pr_ctx.system_prompt
            ELSE << "DEFAULT" >>

\* The metadata holds an identity field (contact name or contact number).
HasIdentityField(m) == m.name = "N" \/ m.number = "NUM"

\* C32: the composed prompt contains a user-context section only if the
\* context metadata holds an identity field; metadata without one (only
\* has_knowledge_base, say) gives no user-context section.
C32_UserContextOnlyWithIdentity ==
    pr_pc = "returned" =>
        ((\E k \in 1..Len(pr_out.prompt) : pr_out.prompt[k] = "UC_BEGIN")
            => HasIdentityField(pr_ctx.metadata))

\* prompt with every placeholder tok, in its "{tok}" and its "{{tok}}"
\* spelling, replaced by the tokens of by.
RECURSIVE Substituted(_, _, _)
Substituted(prompt, tok, by) ==
    IF prompt = << >> THEN << >>
    ELSE IF Len(prompt) >= 3 /\ prompt[1] = "{" /\ prompt[2] = tok /\ prompt[3] = "}"
    THEN by \o Substituted(SubSeq(prompt, 4, Len(prompt)), tok, by)
    ELSE IF prompt[1] = tok THEN by \o Substituted(Tail(prompt), tok, by)
    ELSE << prompt[1] >> \o Substituted(Tail(prompt), tok, by)

\* The sections as the claim names them.
DatetimeSection == << "## Informacion de contexto:", "NOW" >>

UserContextSection ==
    LET first == CHOOSE k \in 1..(Len(pr_out.prompt) + 1) :
                     /\ k <= Len(pr_out.prompt) => pr_out.prompt[k] = "UC_BEGIN"
                     /\ \A j \in 1..(k - 1) : pr_out.prompt[j] # "UC_BEGIN"
        last == CHOOSE k \in 0..Len(pr_out.prompt) :
                    /\ k >= 1 => pr_out.prompt[k] = "UC_END"
                    /\ \A j \in (k + 1)..Len(pr_out.prompt) : pr_out.prompt[j] # "UC_END"
    IN  IF first <= Len(pr_out.prompt) /\ last >= first
        THEN SubSeq(pr_out.prompt, first, last) ELSE << >>

HasPlaceholder(prompt) ==
    \E k \in 1..Len(prompt) :
        prompt[k] \in { "{datetime_context}", "{current_datetime}" }

\* C33: the composed prompt is the base instructions (the datetime
\* placeholders substituted in place), then the user-context section, then
\* the datetime section, then the knowledge-base block; the datetime
\* section is appended exactly when the base instructions hold no datetime
\* placeholder, the knowledge-base block is there exactly when the
\* metadata marks has_knowledge_base.
C33_SectionsInOrder ==
    pr_pc = "returned" =>
        pr_out.prompt =
            Substituted(Substituted(pr_out.base, "{datetime_context}", DatetimeSection),
                        "{current_datetime}", << "NOW" >>)
            \o UserContextSection
            \o (IF HasPlaceholder(pr_out.base) THEN << >> ELSE DatetimeSection)
            \o (IF pr_ctx.metadata.kb = "TRUE"
                THEN << "## Instrucciones de Base de Conocimientos" >> ELSE << >>)

(***************************************************************************)
(* One model call of the agent (dragon_chat_agent.py): the request passes  *)
(* through the middleware list, the first middleware outermost, then       *)
(* reaches the model handler, whose result travels back.                   *)
(*                                                                         *)
(* A request is a record: state_has_messages ("messages" in request.state),*)
(* state_messages (request.state["messages"]), messages                    *)
(* (request.messages), tools, tool_choice, system_prompt.  In a turn the   *)
(* name of a message is a sequence of characters, as ToolConfig names are. *)
(***************************************************************************)
MAX_MESSAGES == 20

\* Mutant: the trimmer wraps the PreAgentMiddleware.
Chain_TrimFirst == << "dynamic_prompt", "trim", "pre_agent" >>

\* middleware=[inject_dynamic_prompt, PreAgentMiddleware(), trim_messages]
Chain == << "dynamic_prompt", "pre_agent", "trim" >>

\* tool_choice values: None, "auto", "required", {"type": "function", ...}
NoChoice == [type |-> "none", name |-> << >>]
AutoChoice == [type |-> "auto", name |-> << >>]
RequiredChoice == [type |-> "required", name |-> << >>]
FunctionChoice(n) == [type |-> "function", name |-> n]

\* tools=[_placeholder_dynamic_router]
StaticTool ==
    [spec |-> [type |-> "function",
               function |-> [name |-> << "r", "o", "u", "t", "e", "r" >>]],
     cfg_index |-> 0]

TurnHuman == [HumanMsg EXCEPT !.name = << >>]

TurnAi(calls) == [AiMsg(calls) EXCEPT !.name = << >>]

\* The k-th of the messages that fill a long history.
Filler(k) == [TurnHuman EXCEPT !.content = << "filler", << ToString(k) >> >>]

Fillers(n) == [k \in 1..n |-> Filler(k)]

TurnMsgAlphabet ==
    { TurnHuman,
      TurnAi(<< Call("a", << "a" >>) >>),
      TurnAi(<< Call("a", << "a" >>), Call("b", << "b" >>) >>),
      ToolMsg("a", << "a" >>) }

PadLens == { 0, MAX_MESSAGES - 1, MAX_MESSAGES }

Histories ==
    { Fillers(n) \o tail : n \in PadLens, tail \in SeqsUpTo(TurnMsgAlphabet, MaxTail) }

ValidConfig(n) ==
    [is_dict |-> TRUE, has_name |-> TRUE, name |-> n,
     url |-> [scheme |-> "https", netloc |-> "h"], schema |-> "object"]

TurnConfigs ==
    { ValidConfig(<< "a" >>),
      ValidConfig(<< "a", " ", "a" >>),
      [ValidConfig(<< "a" >>) EXCEPT !.url = [scheme |-> "ftp", netloc |-> "h"]],
      [ValidConfig(<< >>) EXCEPT !.has_name = FALSE],
      NotAMapping }

\* DragonAgentContext(): every field at its default
NewContext == [NoContext EXCEPT !.kind = "ctx"]

TurnContexts ==
    { NoContext }
    \cup { [NewContext EXCEPT !.kind = k, !.tools = ts] :
             k \in {"ctx", "dict"}, ts \in SeqsUpTo(TurnConfigs, MaxTurnTools) }

\* _ensure_context
EnsureContext(c) == IF c.kind = "ctx" THEN c ELSE NewContext

\* _build_runtime_tooling over cfgs[i..], given what the loop has built.
RECURSIVE BuildFrom(_, _, _, _)
BuildFrom(cfgs, i, dyn, specs) ==
    IF i > Len(cfgs)
    THEN [raised |-> FALSE, dynamic_tools |-> dyn, tool_specs |-> specs]
    ELSE LET tool == BuildToolFromConfig(cfgs[i])
             dyn2 == MapPut(dyn, tool.name,
                            [name |-> tool.name, original_name |-> tool.original_name,
                             cfg_index |-> i])
         IN  IF tool.raised # ""
             THEN IF HandlerRaises(cfgs[i])
                  THEN [raised |-> TRUE, dynamic_tools |-> dyn, tool_specs |-> specs]
                  ELSE BuildFrom(cfgs, i + 1, dyn, specs)
             ELSE IF SpecRaises(cfgs[i])
                  THEN [raised |-> TRUE, dynamic_tools |-> dyn2, tool_specs |-> specs]
                  ELSE BuildFrom(cfgs, i + 1, dyn2,
                                 Append(specs, [spec |-> ToLlmToolSpec(cfgs[i]),
                                                cfg_index |-> i]))

\* _build_runtime_tooling(context)
BuildRuntimeTooling(c) == BuildFrom(c.tools, 1, EmptyMap, << >>)

\* validate_and_clean_messages(msgs) from position i on: the lists it may
\* return (one per order in which the missing ids are visited).
RECURSIVE ValidatedFrom(_, _)
ValidatedFrom(msgs, i) ==
    IF i > Len(msgs) THEN { << >> }
    ELSE { [k \in 1..Len(Appended(msgs, i, o)) |-> Appended(msgs, i, o)[k].msg] \o rest :
             o \in Orders(MissingAt(msgs, i)), rest \in ValidatedFrom(msgs, i + 1) }

ValidateAndCleanMessages(msgs) == ValidatedFrom(msgs, 1)

\* Mutant: the first MAX_MESSAGES messages are kept.
TrimMessages_KeepFirst(msgs) ==
    IF Len(msgs) > MAX_MESSAGES THEN SubSeq(msgs, 1, MAX_MESSAGES) ELSE msgs

\* Mutant: the window of MAX_MESSAGES messages ends one message early.
TrimMessages_ShiftedWindow(msgs) ==
    IF Len(msgs) > MAX_MESSAGES
    THEN SubSeq(msgs, Len(msgs) - MAX_MESSAGES, Len(msgs) - 1)
    ELSE msgs

\* messages[-MAX_MESSAGES:] when len(messages) > MAX_MESSAGES
TrimMessages(msgs) ==
    IF Len(msgs) > MAX_MESSAGES
    THEN SubSeq(msgs, Len(msgs) - MAX_MESSAGES + 1, Len(msgs))
    ELSE msgs

\* _should_force_tool(state, tool_names)
ShouldForceTool(msgs, tool_names) ==
    /\ tool_names # << >>
    /\ ~\E k \in 1..Len(msgs) :
           /\ msgs[k].type = "tool"
           /\ \E n \in 1..Len(tool_names) : msgs[k].name = tool_names[n]

\* Mutant: the original choice is kept when there is one.
ResolveToolChoice_KeepOriginal(msgs, specs, original) ==
    IF specs = << >> THEN NoChoice
    ELSE IF original # NoChoice THEN original
    ELSE IF Len(specs) = 1 THEN FunctionChoice(specs[1].spec.function.name)
    ELSE AutoChoice

\* _resolve_tool_choice(request_state, tool_specs, original_choice), msgs
\* being request_state.get("messages", [])
ResolveToolChoice(msgs, specs, original) ==
    IF specs = << >> THEN NoChoice
    ELSE LET tool_names == [k \in 1..Len(specs) |-> specs[k].spec.function.name]
         IN  IF ShouldForceTool(msgs, tool_names)
             THEN IF Len(tool_names) = 1 THEN FunctionChoice(tool_names[1])
                  ELSE AutoChoice
             ELSE IF original = NoChoice THEN AutoChoice ELSE original

Log(ev, mw) == [ev |-> ev, mw |-> mw]

InitTurn ==
    /\ \E h \in Histories, has \in BOOLEAN, tc \in { NoChoice, RequiredChoice } :
          /\ has \/ h = << >>
          /\ req = [state_has_messages |-> has, state_messages |-> h, messages |-> h,
                    tools |-> << StaticTool >>, tool_choice |-> tc,
                    system_prompt |-> << >>]
    /\ ctx \in TurnContexts
    /\ turn_pc = "enter"
    /\ depth = 1
    /\ turn_log = << >>
    /\ handler_calls = << [by |-> "agent", forwarded |-> req] >>
    /\ results = << >>
    /\ model_out = ""
    /\ TurnRestIdle

Entering(mw) ==
    /\ turn_pc = "enter"
    /\ depth <= Len(Chain)
    /\ Chain[depth] = mw

\* handler(request): the next middleware, or the model, is entered.
CallHandler(mw, request, events) ==
    /\ req' = request
    /\ handler_calls' = Append(handler_calls, [by |-> mw, forwarded |-> request])
    /\ turn_log' = turn_log \o events
    /\ depth' = depth + 1
    /\ turn_pc' = "enter"

\* inject_dynamic_prompt as a middleware: the prompt is put on the request.
DynamicPrompt ==
    /\ Entering("dynamic_prompt")
    /\ CallHandler("dynamic_prompt",
                   [req EXCEPT !.system_prompt = InjectDynamicPrompt(NoConfig, ctx, "NOW").prompt],
                   << Log("enter", "dynamic_prompt") >>)
    /\ UNCHANGED << ctx, results, model_out, turn_rest >>

\* PreAgentMiddleware.wrap_model_call, lines 91-93: the context is ensured,
\* the tools are built and the map is stored in the context.
PreAgentBuild ==
    /\ Entering("pre_agent")
    /\ LET context == EnsureContext(ctx)
           built == BuildRuntimeTooling(context)
       IN  /\ ~built.raised
           /\ ctx' = [context EXCEPT !.dynamic_tools = built.dynamic_tools]
    /\ turn_log' = turn_log \o << Log("enter", "pre_agent"),
                                  Log("dynamic_tools_stored", "pre_agent") >>
    /\ turn_pc' = "pre_validate"
    /\ UNCHANGED << req, depth, handler_calls, results, model_out,
                    turn_rest >>

\* Lines 91-92: _build_runtime_tooling raises and the exception leaves
\* wrap_model_call and the middlewares around it.
PreAgentBuildRaises ==
    /\ Entering("pre_agent")
    /\ BuildRuntimeTooling(EnsureContext(ctx)).raised
    /\ ctx' = EnsureContext(ctx)
    /\ turn_log' = Append(turn_log, Log("enter", "pre_agent"))
    /\ turn_pc' = "raised"
    /\ UNCHANGED << req, depth, handler_calls, results, model_out,
                    turn_rest >>

\* Lines 96-100: the history in request.state is validated.
PreAgentValidate ==
    /\ turn_pc = "pre_validate"
    /\ IF req.state_has_messages
       THEN \E cleaned_messages \in ValidateAndCleanMessages(req.state_messages) :
                req' = [req EXCEPT !.state_messages = cleaned_messages]
       ELSE req' = req
    /\ turn_log' = Append(turn_log, Log("validate", "pre_agent"))
    /\ turn_pc' = "pre_tools"
    /\ UNCHANGED << ctx, depth, handler_calls, results, model_out,
                    turn_rest >>

\* Mutant: the tools and the tool choice are overridden also when there
\* are no tool specs.
WithDynamicTools_AlwaysOverride(request, specs) ==
    [request EXCEPT !.tools = request.tools \o specs,
                    !.tool_choice =
                        ResolveToolChoice(
                            IF request.state_has_messages
                            THEN request.state_messages ELSE << >>,
                            specs, request.tool_choice)]

\* Mutant: the tool specs take the place of the tools of the request.
WithDynamicTools_ReplaceTools(request, specs) ==
    IF specs # << >>
    THEN [request EXCEPT !.tools = specs,
                         !.tool_choice =
                             ResolveToolChoice(
                                 IF request.state_has_messages
                                 THEN request.state_messages ELSE << >>,
                                 specs, request.tool_choice)]
    ELSE request

\* Lines 102-113: the overrides of tools and tool_choice, applied to the
\* request only when there are tool specs.
WithDynamicTools(request, specs) ==
    IF specs # << >>
    THEN [request EXCEPT !.tools = request.tools \o specs,
                         !.tool_choice =
                             ResolveToolChoice(
                                 IF request.state_has_messages
                                 THEN request.state_messages ELSE << >>,
                                 specs, request.tool_choice)]
    ELSE request

\* Lines 102-117: the tool specs and the tool choice are put on the
\* request and the handler is called.
PreAgentTools ==
    /\ turn_pc = "pre_tools"
    /\ LET specs == BuildRuntimeTooling(ctx).tool_specs
       IN  CallHandler("pre_agent", WithDynamicTools(req, specs),
                       IF specs # << >>
                       THEN << Log("tools_on_request", "pre_agent") >>
                       ELSE << >>)
    /\ UNCHANGED << ctx, results, model_out, turn_rest >>

\* TrimMessagesMiddleware.wrap_model_call
Trim ==
    /\ Entering("trim")
    /\ CallHandler("trim",
                   IF req.state_has_messages /\ Len(req.state_messages) > MAX_MESSAGES
                   THEN [req EXCEPT !.state_messages = TrimMessages(req.state_messages),
                                    !.messages = TrimMessages(req.state_messages)]
                   ELSE req,
                   << Log("enter", "trim"), Log("trim", "trim") >>)
    /\ UNCHANGED << ctx, results, model_out, turn_rest >>

\* The model handler is reached: it returns a response or raises.
ModelCall ==
    /\ turn_pc = "enter"
    /\ depth = Len(Chain) + 1
    /\ \E out \in { "response", "error" } : model_out' = out
    /\ turn_log' = Append(turn_log, Log("model_call", "model"))
    /\ depth' = depth - 1
    /\ turn_pc' = "unwind"
    /\ UNCHANGED << req, ctx, handler_calls, results, turn_rest >>

\* return handler(request): the middleware hands on what its handler gave.
MiddlewareReturn ==
    /\ turn_pc = "unwind"
    /\ depth >= 1
    /\ results' = Append(results, [by |-> Chain[depth], result |-> model_out])
    /\ depth' = depth - 1
    /\ turn_pc' = IF depth = 1 THEN "done" ELSE "unwind"
    /\ UNCHANGED << req, ctx, turn_log, handler_calls, model_out,
                    turn_rest >>

NextTurn ==
    \/ DynamicPrompt
    \/ PreAgentBuild
    \/ PreAgentBuildRaises
    \/ PreAgentValidate
    \/ PreAgentTools
    \/ Trim
    \/ ModelCall
    \/ MiddlewareReturn

SpecTurn == InitTurn /\ [][NextTurn]_vars

(***************************************************************************)
(* Claims about a model call through the middleware chain.                 *)
(***************************************************************************)
\* The last n messages of msgs, in their order.
LastMessages(msgs, n) == [k \in 1..n |-> msgs[Len(msgs) - n + k]]

\* The calls of the handler made by middleware mw.
HandlerCallsBy(mw) == { k \in 1..Len(handler_calls) : handler_calls[k].by = mw }

\* C11: when request.state["messages"] has more than 20 messages, the
\* request the trimmer forwards to its handler carries exactly the last 20
\* of them, in their order (in the state and in request.messages); when it
\* has 20 or fewer, the request is forwarded unchanged.
C11_TrimForwardsLast20 ==
    \A k \in HandlerCallsBy("trim") :
        LET received == handler_calls[k - 1].forwarded
            forwarded == handler_calls[k].forwarded
        IN  IF received.state_has_messages /\ Len(received.state_messages) > 20
            THEN forwarded =
                    [received EXCEPT
                        !.state_messages = LastMessages(received.state_messages, 20),
                        !.messages = LastMessages(received.state_messages, 20)]
            ELSE forwarded = received

C11_Witness ==
    /\ turn_pc = "done"
    /\ \E k \in HandlerCallsBy("trim") :
          /\ Len(handler_calls[k - 1].forwarded.state_messages) = 22
          /\ Len(handler_calls[k].forwarded.state_messages) = 20
          /\ handler_calls[k].forwarded.messages[20].type = "tool"

\* Every event b of the log has an event a before it.
Precedes(a, b) ==
    \A j \in 1..Len(turn_log) :
        turn_log[j].ev = b => \E i \in 1..(j - 1) : turn_log[i].ev = a

\* C18: in a model call, the dynamic-tool map is built and stored in the
\* context before the tool specs are put on the request, the history is
\* validated before it is trimmed, and it is trimmed before the model
\* handler is called.
C18_StepsInOrder ==
    /\ Precedes("dynamic_tools_stored", "tools_on_request")
    /\ Precedes("validate", "trim")
    /\ Precedes("trim", "model_call")

C18_Witness ==
    /\ turn_pc = "done"
    /\ \E i, j, k, l \in 1..Len(turn_log) :
          /\ i < j /\ j < k /\ k < l
          /\ turn_log[i].ev = "validate"
          /\ turn_log[j].ev = "tools_on_request"
          /\ turn_log[k].ev = "trim"
          /\ turn_log[l].ev = "model_call"
    /\ Len(req.state_messages) = 20
    /\ DOMAIN ctx.dynamic_tools # {}

\* C19: PreAgentMiddleware and TrimMessagesMiddleware, once entered, each
\* call their handler exactly once and return what it returned, on every
\* branch.
C19_HandlerCalledOnceResultReturned ==
    turn_pc \in { "done", "raised" } =>
        \A mw \in { "pre_agent", "trim" } :
            (\E j \in 1..Len(turn_log) : turn_log[j] = [ev |-> "enter", mw |-> mw]) =>
                /\ Cardinality(HandlerCallsBy(mw)) = 1
                /\ Cardinality({ k \in 1..Len(results) : results[k].by = mw }) = 1
                /\ \A k \in 1..Len(results) :
                       results[k].by = mw =>
                           /\ model_out # ""
                           /\ results[k].result = model_out

\* C25: whenever history validation changed the message sequence, the
\* request that reaches the model handler carries the repaired sequence
\* (its last 20 messages when it is longer) both in the state's messages and
\* in its messages field.
C25_ModelGetsRepairedHistory ==
    \A j \in HandlerCallsBy("pre_agent"), k \in HandlerCallsBy("trim") :
        LET received == handler_calls[j - 1].forwarded
            repaired == handler_calls[j].forwarded.state_messages
            model == handler_calls[k].forwarded
        IN  (received.state_has_messages /\ repaired # received.state_messages) =>
                /\ model.state_messages =
                       IF Len(repaired) > 20 THEN LastMessages(repaired, 20)
                       ELSE repaired
                /\ model.messages = model.state_messages

\* C26: when the turn yields no dynamic tool specs (no ToolConfigs, or
\* every config failed to build), the request PreAgentMiddleware forwards
\* has the tools and the tool_choice of the request it received.
C26_NoSpecsLeavesToolsAndChoice ==
    \A k \in HandlerCallsBy("pre_agent") :
        BuildRuntimeTooling(ctx).tool_specs = << >> =>
            /\ handler_calls[k].forwarded.tools = handler_calls[k - 1].forwarded.tools
            /\ handler_calls[k].forwarded.tool_choice
                   = handler_calls[k - 1].forwarded.tool_choice

C26_Witness ==
    /\ turn_pc = "done"
    /\ ctx.tools # << >>
    /\ BuildRuntimeTooling(ctx).tool_specs = << >>
    /\ \E k \in HandlerCallsBy("pre_agent") :
          /\ handler_calls[k].forwarded.tools = << StaticTool >>
          /\ handler_calls[k].forwarded.tool_choice = RequiredChoice


\* In window w, the call id of the assistant message at p is answered by a
\* tool-result that comes before the next assistant message.
AnsweredInWindow(w, p, id) ==
    \E q \in (p + 1)..Len(w) :
        /\ w[q].type = "tool"
        /\ w[q].tool_call_id = id
        /\ \A x \in (p + 1)..(q - 1) : w[x].type # "ai"

\* C38: in the state's messages of the request the trimmer forwards to the
\* model (validated, then trimmed), every assistant message with tool
\* calls has, for each of its call ids, a tool-result with that id inside
\* the window before the next assistant message.
C38_WindowKeepsResultsOfKeptCalls ==
    \A k \in HandlerCallsBy("trim") :
        LET model == handler_calls[k].forwarded
            w == model.state_messages
        IN  model.state_has_messages =>
                \A p \in 1..Len(w) :
                    w[p].type = "ai" =>
                        \A c \in 1..Len(w[p].tool_calls) :
                            w[p].tool_calls[c].id # "" =>
                                AnsweredInWindow(w, p, w[p].tool_calls[c].id)

\* the history was repaired and cut, the window holds an assistant message
\* with tool calls and ends with a tool-result
C38_Witness ==
    /\ turn_pc = "done"
    /\ \E j \in HandlerCallsBy("pre_agent"), k \in HandlerCallsBy("trim") :
          LET received == handler_calls[j - 1].forwarded.state_messages
              repaired == handler_calls[j].forwarded.state_messages
              w == handler_calls[k].forwarded.state_messages
          IN  /\ Len(repaired) > MAX_MESSAGES
              /\ repaired # received
              /\ Len(w) = MAX_MESSAGES
              /\ \E p \in 1..Len(w) : w[p].type = "ai" /\ w[p].tool_calls # << >>
              /\ w[Len(w)].type = "tool"

(***************************************************************************)
(* _resolve_tool_choice on its own: any history, any list of tool specs,   *)
(* any original choice.                                                    *)
(***************************************************************************)
SpecOf(n) == [spec |-> ToLlmToolSpec(ValidConfig(n)), cfg_index |-> 0]

ChoiceSpecs == { SpecOf(<< "a" >>), SpecOf(<< "b" >>) }

ChoiceMsgAlphabet ==
    { TurnHuman,
      TurnAi(<< Call("a", << "a" >>) >>),
      ToolMsg("a", << "a" >>),
      ToolMsg("b", << "b" >>),
      ToolMsg("c", StaticTool.spec.function.name) }

OriginalChoices == { NoChoice, AutoChoice, RequiredChoice, FunctionChoice(<< "b" >>) }

InitChoice ==
    /\ ch_msgs \in SeqsUpTo(ChoiceMsgAlphabet, MaxTail)
    /\ ch_specs \in SeqsUpTo(ChoiceSpecs, MaxTools)
    /\ ch_original \in OriginalChoices
    /\ ch_out = << >>
    /\ ch_pc = "call"
    /\ ChoiceRestIdle

\* One call of _resolve_tool_choice.
ResolveChoice ==
    /\ ch_pc = "call"
    /\ ch_out' = ResolveToolChoice(ch_msgs, ch_specs, ch_original)
    /\ ch_pc' = "returned"
    /\ UNCHANGED << ch_msgs, ch_specs, ch_original, choice_rest >>

NextChoice == ResolveChoice

SpecChoice == InitChoice /\ [][NextChoice]_vars

(***************************************************************************)
(* Claims about _resolve_tool_choice.                                      *)
(***************************************************************************)
\* The names the tool specs advertise.
SpecNames == { ch_specs[k].spec.function.name : k \in 1..Len(ch_specs) }

\* No tool-result of a dynamic tool is in the history.
NoDynamicToolResult ==
    \A k \in 1..Len(ch_msgs) :
        ch_msgs[k].type = "tool" => ch_msgs[k].name \notin SpecNames

\* C15: when the history holds no tool-result of a dynamic tool, the
\* resolved choice forces the single dynamic tool by name if there is
\* exactly one tool spec, and is "auto" if there are two or more, whatever
\* the original choice.
C15_ForcesSingleToolElseAuto ==
    (ch_pc = "returned" /\ NoDynamicToolResult) =>
        /\ Len(ch_specs) = 1 =>
               ch_out = [type |-> "function", name |-> ch_specs[1].spec.function.name]
        /\ Len(ch_specs) >= 2 => ch_out = [type |-> "auto", name |-> << >>]

C15_Witness ==
    /\ ch_pc = "returned"
    /\ NoDynamicToolResult
    /\ Len(ch_specs) = 1
    /\ ch_original = RequiredChoice
    /\ \E k \in 1..Len(ch_msgs) : ch_msgs[k].type = "tool"
    /\ ch_out.type = "function"

\* The position of the last assistant message of the history (0: none).
LastAssistant ==
    IF \E k \in 1..Len(ch_msgs) : ch_msgs[k].type = "ai"
    THEN CHOOSE k \in 1..Len(ch_msgs) :
             /\ ch_msgs[k].type = "ai"
             /\ \A m \in (k + 1)..Len(ch_msgs) : ch_msgs[m].type # "ai"
    ELSE 0

\* A tool-result of a dynamic tool follows the last assistant message.
DynamicToolResultSinceLastAssistant ==
    \E k \in (LastAssistant + 1)..Len(ch_msgs) :
        ch_msgs[k].type = "tool" /\ ch_msgs[k].name \in SpecNames

\* C27: with one dynamic tool spec (and an original choice that names no
\* function), the tool is forced exactly when no tool-result of a dynamic
\* tool follows the last assistant message; a dynamic tool-result before
\* the last assistant message does not count.
C27_ForcedIffNoResultSinceLastAssistant ==
    (ch_pc = "returned" /\ Len(ch_specs) = 1 /\ ch_original.type # "function") =>
        (ch_out.type = "function" <=> ~DynamicToolResultSinceLastAssistant)

(***************************************************************************)
(* _do_post (build_tool_from_config.py): one POST to the webhook.          *)
(*                                                                         *)
(* What requests.post does is an event: an exception of some class, or a   *)
(* response with a status code and a body.  The result of _do_post is a    *)
(* mapping (a function from keys to values) or an exception that leaves    *)
(* it.  Clock readings and texts are tokens.                               *)
(***************************************************************************)
\* requests.exceptions: the classes that derive from RequestException.
RequestExceptionClasses ==
    { "Timeout", "ConnectTimeout", "ReadTimeout", "ConnectionError", "TooManyRedirects" }

\* Exceptions requests.post can raise; ValueError (an unusable timeout
\* value) does not derive from RequestException.
PostExceptionClasses == RequestExceptionClasses \cup { "ValueError" }

StatusCodes ==
    { 100, 199, 200, 201, 204, 299, 300, 302, 304, 399, 400, 404, 499, 500, 503, 599, 600 }

\* Response bodies: a JSON object, a JSON object that has the key
\* "elapsed_ms", a JSON value that is no object, a text that is no JSON.
BodyKinds == { "object", "object_with_elapsed", "array", "text" }

PostTimeouts == { "(10, 30)", "5.0" }

PostEvents ==
    { [kind |-> "exception", cls |-> c, status_code |-> 0, body |-> "", timeout |-> tm] :
        c \in PostExceptionClasses, tm \in PostTimeouts }
    \cup { [kind |-> "response", cls |-> "", status_code |-> sc, body |-> b, timeout |-> tm] :
             sc \in StatusCodes, b \in BodyKinds, tm \in PostTimeouts }

\* except RequestException
IsRequestException(cls) == cls \in RequestExceptionClasses

\* Mutant: only server errors raise.
RaiseForStatusRaises_ServerOnly(status_code) == 500 <= status_code /\ status_code < 600

\* resp.raise_for_status() raises HTTPError for 4xx and 5xx.
RaiseForStatusRaises(status_code) == 400 <= status_code /\ status_code < 600

\* resp.json() raises ValueError
JsonRaises(body) == body = "text"

\* resp.json()
JsonOf(body) ==
    IF body = "object" THEN [answer |-> "ANSWER"]
    ELSE IF body = "object_with_elapsed"
    THEN [answer |-> "ANSWER", elapsed_ms |-> "BODY_ELAPSED"]
    ELSE << "ITEM" >>

JsonIsDict(body) == body \in { "object", "object_with_elapsed" }

Returned(value) == [raised |-> "", value |-> value]

Raised(cls) == [raised |-> cls, value |-> << >>]

\* Mutant: the key is always set to v.
SetDefault_Overwrite(data, key, v) ==
    [k \in DOMAIN data \cup { key } |-> IF k = key THEN v ELSE data[k]]

\* data.setdefault("elapsed_ms", elapsed_ms)
SetDefault(data, key, v) ==
    [k \in DOMAIN data \cup { key } |-> IF k \in DOMAIN data THEN data[k] ELSE v]

\* Mutant: only timeouts are caught.
DoPost_CatchTimeoutOnly(ev) ==
    IF ev.kind = "exception"
    THEN IF ev.cls \in { "Timeout", "ConnectTimeout", "ReadTimeout" }
         THEN Returned([status |-> "error", error |-> "STR_EXC", error_type |-> ev.cls,
                        url |-> "URL", timeout |-> ev.timeout, elapsed_ms |-> "ELAPSED"])
         ELSE Raised(ev.cls)
    ELSE Returned([status |-> "ok", status_code |-> ev.status_code, text |-> "TEXT"])

\* _do_post(payload), requests.post behaving as ev.
DoPost(ev) ==
    IF ev.kind = "exception"
    THEN IF IsRequestException(ev.cls)
         THEN Returned([status |-> "error", error |-> "STR_EXC", error_type |-> ev.cls,
                        url |-> "URL", timeout |-> ev.timeout, elapsed_ms |-> "ELAPSED"])
         ELSE Raised(ev.cls)
    ELSE IF RaiseForStatusRaises(ev.status_code)
    THEN Returned([status |-> "error", error |-> "STR_EXC", error_type |-> "HTTPError",
                   status_code |-> ev.status_code, body |-> "TEXT", url |-> "URL",
                   elapsed_ms |-> "ELAPSED"])
    ELSE IF JsonRaises(ev.body)
    THEN Returned(SetDefault([status |-> "ok", status_code |-> ev.status_code,
                              text |-> "TEXT"],
                             "elapsed_ms", "ELAPSED"))
    ELSE IF JsonIsDict(ev.body)
    THEN Returned(SetDefault(JsonOf(ev.body), "elapsed_ms", "ELAPSED"))
    ELSE Returned([status |-> "ok", data |-> JsonOf(ev.body), elapsed_ms |-> "ELAPSED"])

InitPost ==
    /\ po_event \in PostEvents
    /\ po_out = << >>
    /\ po_pc = "call"
    /\ PostRestIdle

\* One call of _do_post.
Post ==
    /\ po_pc = "call"
    /\ po_out' = DoPost(po_event)
    /\ po_pc' = "returned"
    /\ UNCHANGED << po_event, post_rest >>

NextPost == Post

SpecPost == InitPost /\ [][NextPost]_vars

(***************************************************************************)
(* Claims about _do_post.                                                  *)
(***************************************************************************)
\* _do_post returned a mapping with status "error".
ReturnedError ==
    /\ po_out.raised = ""
    /\ "status" \in DOMAIN po_out.value
    /\ po_out.value["status"] = "error"

TransportErrorKeys == { "status", "error", "error_type", "url", "timeout", "elapsed_ms" }

\* C12 as stated: whatever exception the HTTP call raises, the invocation
\* returns a mapping with status "error", error, error_type, url, timeout
\* and elapsed_ms, and error_type is "Timeout" for a timeout.
C12_AnyExceptionReturnsError ==
    (po_pc = "returned" /\ po_event.kind = "exception") =>
        /\ ReturnedError
        /\ DOMAIN po_out.value = TransportErrorKeys
        /\ po_event.cls \in { "Timeout", "ConnectTimeout", "ReadTimeout" } =>
               po_out.value["error_type"] = "Timeout"

\* C12, amended: when the HTTP call raises a RequestException (a timeout, a
\* connection failure, ...), the invocation does not raise and returns a
\* mapping with exactly status "error", error, error_type, url, timeout and
\* elapsed_ms, error_type being the class name of the exception.
C12_RequestExceptionReturnsError ==
    (po_pc = "returned" /\ po_event.kind = "exception"
        /\ po_event.cls \in { "Timeout", "ConnectTimeout", "ReadTimeout",
                              "ConnectionError", "TooManyRedirects" }) =>
        /\ ReturnedError
        /\ DOMAIN po_out.value = TransportErrorKeys
        /\ po_out.value["error_type"] = po_event.cls
        /\ po_out.value["timeout"] = po_event.timeout

C12_Witness ==
    /\ po_pc = "returned"
    /\ po_event.kind = "exception"
    /\ po_event.cls = "ConnectionError"
    /\ ReturnedError
    /\ po_out.value["error_type"] = "ConnectionError"

SuccessfulResponse ==
    /\ po_event.kind = "response"
    /\ ~(400 <= po_event.status_code /\ po_event.status_code < 600)

\* C31 as stated: on a successful response a JSON-object body is returned
\* with the measured elapsed_ms in it, a JSON body that is no object is
\* wrapped as {status: "ok", data, elapsed_ms}, and a body that is no JSON
\* is returned as exactly {status: "ok", status_code, text}.
C31_ThreeResultShapes ==
    (po_pc = "returned" /\ SuccessfulResponse) =>
        /\ po_out.raised = ""
        /\ po_event.body \in { "object", "object_with_elapsed" } =>
               po_out.value = [answer |-> "ANSWER", elapsed_ms |-> "ELAPSED"]
        /\ po_event.body = "array" =>
               po_out.value = [status |-> "ok", data |-> << "ITEM" >>,
                               elapsed_ms |-> "ELAPSED"]
        /\ po_event.body = "text" =>
               po_out.value = [status |-> "ok", status_code |-> po_event.status_code,
                               text |-> "TEXT"]

\* C31, amended: a JSON-object body is returned with the measured
\* elapsed_ms added unless it has an elapsed_ms of its own, which is kept;
\* a JSON body that is no object is wrapped as {status: "ok", data,
\* elapsed_ms}; a body that is no JSON is returned as {status: "ok",
\* status_code, text, elapsed_ms}.
C31_ResultShapesWithElapsed ==
    (po_pc = "returned" /\ SuccessfulResponse) =>
        /\ po_out.raised = ""
        /\ po_event.body = "object" =>
               po_out.value = [answer |-> "ANSWER", elapsed_ms |-> "ELAPSED"]
        /\ po_event.body = "object_with_elapsed" =>
               po_out.value = [answer |-> "ANSWER", elapsed_ms |-> "BODY_ELAPSED"]
        /\ po_event.body = "array" =>
               po_out.value = [status |-> "ok", data |-> << "ITEM" >>,
                               elapsed_ms |-> "ELAPSED"]
        /\ po_event.body = "text" =>
               po_out.value = [status |-> "ok", status_code |-> po_event.status_code,
                               text |-> "TEXT", elapsed_ms |-> "ELAPSED"]

C31_Witness ==
    /\ po_pc = "returned"
    /\ po_event.kind = "response"
    /\ po_event.status_code = 200
    /\ po_event.body = "object_with_elapsed"
    /\ po_out.value.elapsed_ms = "BODY_ELAPSED"

(***************************************************************************)
(* The argument model of a built tool (build_tool_from_config.py, lines    *)
(* 146-178) and _func / _afunc (lines 224-231).                            *)
(*                                                                         *)
(* A property name and an input key are sequences of characters.  The      *)
(* schema is the sequence of its property names (dicts keep their order),  *)
(* the set of required names, and whether the properties declare the type  *)
(* "string" or no type.  The keyword arguments are a function from keys to *)
(* values, the value "null" being None.                                    *)
(***************************************************************************)
FIELD == << "f", "i", "e", "l", "d" >>

\* The class [A-Za-z0-9_]
IsFieldChar(c) == c \in Letters \cup Digits \cup { "_" }

RECURSIVE SkipNonFieldRun(_)
SkipNonFieldRun(s) ==
    IF s # << >> /\ ~IsFieldChar(Head(s)) THEN SkipNonFieldRun(Tail(s)) ELSE s

\* re.sub(r"[^A-Za-z0-9_]+", "_", name)
RECURSIVE SubNonFieldRuns(_)
SubNonFieldRuns(s) ==
    IF s = << >> THEN << >>
    ELSE IF IsFieldChar(Head(s)) THEN << Head(s) >> \o SubNonFieldRuns(Tail(s))
    ELSE << "_" >> \o SubNonFieldRuns(SkipNonFieldRun(s))

\* candidate.isidentifier()
IsIdentifier(s) ==
    /\ s # << >>
    /\ Head(s) \notin Digits
    /\ \A k \in 1..Len(s) : IsFieldChar(s[k]) \/ s[k] \in { "f", "i", "e", "d" }

\* while candidate in used: candidate = f"{base}_{i}"; i += 1
RECURSIVE Unused(_, _, _, _)
Unused(base, candidate, i, used) ==
    IF candidate \in used
    THEN Unused(base, base \o << "_", ToString(i) >>, i + 1, used)
    ELSE candidate

\* _safe_field_name(name, used)
SafeFieldName(name, used) ==
    LET subbed == SubNonFieldRuns(name)
        prefixed == IF subbed = << >> \/ Head(subbed) \in Digits
                    THEN FIELD \o << "_" >> \o subbed ELSE subbed
        base == IF IsIdentifier(prefixed) THEN prefixed ELSE FIELD
    IN  Unused(base, base, 2, used)

\* The fields of ArgsModel, for the properties props[i..], the safe names
\* in used being taken.
RECURSIVE FieldsFrom(_, _, _, _)
FieldsFrom(props, required, i, used) ==
    IF i > Len(props) THEN << >>
    ELSE LET safe_name == SafeFieldName(props[i], used)
         IN  << [safe_name |-> safe_name, alias |-> props[i],
                 required |-> props[i] \in required] >>
             \o FieldsFrom(props, required, i + 1, used \cup { safe_name })

Fields(schema) == FieldsFrom(schema.props, schema.required, 1, {})

\* The value ArgsModel(**kwargs) finds for a field: by its alias, else
\* (populate_by_name=True) by its name.
FieldValue(field, kwargs) ==
    IF field.alias \in DOMAIN kwargs THEN kwargs[field.alias]
    ELSE IF field.safe_name \in DOMAIN kwargs THEN kwargs[field.safe_name]
    ELSE "missing"

\* ArgsModel(**kwargs) raises ValidationError: a required field is
\* missing, or None is given to a field of type str.
ValidationFails(schema, kwargs) ==
    \E k \in 1..Len(Fields(schema)) :
        LET field == Fields(schema)[k]
            v == FieldValue(field, kwargs)
        IN  \/ field.required /\ v = "missing"
            \/ schema.typed /\ v = "null"

\* ArgsModel(**kwargs).model_dump(by_alias=True, exclude_none=True)
Payload(schema, kwargs) ==
    LET fields == Fields(schema)
        kept == { k \in 1..Len(fields) :
                    FieldValue(fields[k], kwargs) \notin { "missing", "null" } }
    IN  [a \in { fields[k].alias : k \in kept } |->
            FieldValue(CHOOSE f \in { fields[k] : k \in kept } : f.alias = a, kwargs)]

PropNames == { << "a", "-", "a" >>, << "a", "_", "a" >>, << "7" >>, << "t" >> }

\* Keys an invocation may carry: the property names, the safe name of
\* "7", a name no schema knows.
InputKeys == PropNames \cup { FIELD \o << "_", "7" >>, << "o" >> }

ArgValues == { "x", "y", "null" }

Schemas ==
    { [props |-> ps, required |-> r, typed |-> ty] :
        ps \in { s \in SeqsUpTo(PropNames, MaxProps) :
                   \A i, j \in 1..Len(s) : i # j => s[i] # s[j] },
        r \in SUBSET PropNames, ty \in BOOLEAN }

InitArgs ==
    /\ \E schema \in Schemas :
          /\ schema.required \subseteq { schema.props[k] : k \in 1..Len(schema.props) }
          /\ ar_props = schema
    /\ \E keys \in SUBSET InputKeys :
          /\ Cardinality(keys) <= MaxArgs
          /\ ar_input \in [keys -> ArgValues]
    /\ ar_out = << >>
    /\ ar_pc = "call"
    /\ ArgsRestIdle

\* _func(**kwargs) up to the call of _do_post: the payload, or the
\* ValidationError.
MakePayload ==
    /\ ar_pc = "call"
    /\ ar_out' = IF ValidationFails(ar_props, ar_input)
                 THEN Raised("ValidationError")
                 ELSE Returned(Payload(ar_props, ar_input))
    /\ ar_pc' = "returned"
    /\ UNCHANGED << ar_props, ar_input, args_rest >>

NextArgs == MakePayload

SpecArgs == InitArgs /\ [][NextArgs]_vars

(***************************************************************************)
(* Claims about the posted body.                                           *)
(***************************************************************************)
\* The input entries whose key is a schema property and whose value is
\* not null.
SuppliedProperties ==
    { k \in DOMAIN ar_input :
        /\ \E i \in 1..Len(ar_props.props) : ar_props.props[i] = k
        /\ ar_input[k] # "null" }

\* C14: for an input keyed by property names of the schema, the body
\* posted contains exactly the input entries whose value is non-null, under
\* their original keys.
C14_BodyIsSuppliedProperties ==
    (/\ ar_pc = "returned"
     /\ ar_out.raised = ""
     /\ \A k \in DOMAIN ar_input : \E i \in 1..Len(ar_props.props) : ar_props.props[i] = k) =>
        /\ DOMAIN ar_out.value = SuppliedProperties
        /\ \A k \in SuppliedProperties : ar_out.value[k] = ar_input[k]

(***************************************************************************)
(* PreAgentMiddleware.wrap_tool_call / awrap_tool_call: one tool call.     *)
(*                                                                         *)
(* The request carries the tool call (name, id, args) and, for the model,  *)
(* what the callees will do: whether the static handler raises and whether *)
(* tool.invoke raises.  The context may still hold the map stored by the   *)
(* model call, or may have lost it.                                        *)
(***************************************************************************)
NoTool == [name |-> << >>, original_name |-> << >>, cfg_index |-> 0]

\* The maps a context may hold: none, or the one built from its tools.
StoredMaps(ts) ==
    { EmptyMap } \cup
    (LET built == BuildFrom(ts, 1, EmptyMap, << >>)
     IN  IF built.raised THEN {} ELSE { built.dynamic_tools })

CallContexts ==
    { NoContext }
    \cup { [NewContext EXCEPT !.kind = k, !.tools = ts, !.dynamic_tools = m] :
             k \in {"ctx", "dict"}, ts \in SeqsUpTo(TurnConfigs, MaxTurnTools),
             m \in UNION { StoredMaps(ts2) : ts2 \in SeqsUpTo(TurnConfigs, MaxTurnTools) } }

CallNames ==
    { << "a" >>, << "a", "_", "a" >>, << "a", " ", "a" >>, StaticTool.spec.function.name }

CallRequests ==
    [name : CallNames, id : { "call_1" }, args : { "ARGS" },
     handler_raises : BOOLEAN, invoke_raises : BOOLEAN]

\* _lookup_runtime_tool, _get_available_dynamic_tools and the rebuild of
\* lines 217-229: the tool found (NoTool when none), the context after
\* it, or the exception _build_runtime_tooling raises.
LookupTool(c, tool_name) ==
    LET existing == IF c.kind \in {"ctx", "dict"} THEN c.dynamic_tools ELSE EmptyMap
    IN  IF tool_name \in DOMAIN existing
        THEN [raised |-> FALSE, tool |-> existing[tool_name], context |-> c]
        ELSE IF DOMAIN existing # {} \/ c.kind = "none" \/ c.tools = << >>
        THEN [raised |-> FALSE, tool |-> NoTool, context |-> c]
        ELSE LET built == BuildRuntimeTooling(c)
             IN  IF built.raised
                 THEN [raised |-> TRUE, tool |-> NoTool, context |-> c]
                 ELSE [raised |-> FALSE,
                       tool |-> IF tool_name \in DOMAIN built.dynamic_tools
                                THEN built.dynamic_tools[tool_name] ELSE NoTool,
                       context |-> IF c.kind = "ctx"
                                   THEN [c EXCEPT !.dynamic_tools = built.dynamic_tools]
                                   ELSE c]

\* ToolMessage(content=..., name=tool_name, tool_call_id=tool_call_id, status=...)
ToolMessage(content, name, tool_call_id, status) ==
    [type |-> "tool", tool_calls |-> << >>, tool_call_id |-> tool_call_id,
     name |-> name, content |-> content, status |-> status]

\* Lines 237-257: the static handler is tried.
StaticResult(request) ==
    IF request.handler_raises
    THEN ToolMessage(<< "Error: Tool ", request.name, " is not available" >>,
                     request.name, request.id, "error")
    ELSE ToolMessage(<< "HANDLER_RESULT" >>, request.name, request.id, "success")

\* Mutant: the error result carries no status.
DynamicResult_NoErrorStatus(request) ==
    IF request.invoke_raises
    THEN ToolMessage(<< "STR_EXC" >>, request.name, request.id, "success")
    ELSE ToolMessage(<< "OUTPUT" >>, request.name, request.id, "success")

\* Lines 259-276: the dynamic tool is invoked.
DynamicResult(request) ==
    IF request.invoke_raises
    THEN ToolMessage(<< "STR_EXC" >>, request.name, request.id, "error")
    ELSE ToolMessage(<< "OUTPUT" >>, request.name, request.id, "success")

InitCall ==
    /\ tc_ctx \in CallContexts
    /\ tc_request \in CallRequests
    /\ tc_log = << >>
    /\ tc_out = << >>
    /\ tc_pc = "call"
    /\ CallRestIdle

\* The rebuild raises: the exception leaves wrap_tool_call.
ToolCallRebuildRaises ==
    /\ tc_pc = "call"
    /\ LookupTool(tc_ctx, tc_request.name).raised
    /\ tc_out' = Raised("Exception")
    /\ tc_pc' = "returned"
    /\ UNCHANGED << tc_ctx, tc_request, tc_log, call_rest >>

\* No dynamic tool of that name: the static handler is called.
ToolCallStatic ==
    /\ tc_pc = "call"
    /\ LET found == LookupTool(tc_ctx, tc_request.name)
       IN  /\ ~found.raised
           /\ found.tool = NoTool
           /\ tc_ctx' = found.context
    /\ tc_log' = Append(tc_log, [call |-> "handler", arg |-> "REQUEST"])
    /\ tc_out' = Returned(StaticResult(tc_request))
    /\ tc_pc' = "returned"
    /\ UNCHANGED << tc_request, call_rest >>

\* The dynamic tool is found and invoked.
ToolCallDynamic ==
    /\ tc_pc = "call"
    /\ LET found == LookupTool(tc_ctx, tc_request.name)
       IN  /\ ~found.raised
           /\ found.tool # NoTool
           /\ tc_ctx' = found.context
    /\ tc_log' = Append(tc_log, [call |-> "invoke", arg |-> tc_request.args])
    /\ tc_out' = Returned(DynamicResult(tc_request))
    /\ tc_pc' = "returned"
    /\ UNCHANGED << tc_request, call_rest >>

NextCall == ToolCallRebuildRaises \/ ToolCallStatic \/ ToolCallDynamic

SpecToolCall == InitCall /\ [][NextCall]_vars

(***************************************************************************)
(* Claims about wrap_tool_call.                                            *)
(***************************************************************************)
\* The calls wrap_tool_call made.
CallsMade == { tc_log[k].call : k \in 1..Len(tc_log) }

\* C16: wrap_tool_call never lets an exception out; when no dynamic tool
\* was invoked, the static handler was called, and if it raised, the
\* result is an error tool-result that names the tool, says it is not
\* available and carries the tool_call_id of the request.
C16_NeverRaisesFallsBackToHandler ==
    tc_pc = "returned" =>
        /\ tc_out.raised = ""
        /\ "invoke" \notin CallsMade =>
               /\ CallsMade = { "handler" }
               /\ tc_request.handler_raises =>
                      /\ tc_out.value.status = "error"
                      /\ tc_out.value.name = tc_request.name
                      /\ tc_out.value.tool_call_id = tc_request.id
                      /\ tc_out.value.content =
                             << "Error: Tool ", tc_request.name, " is not available" >>

\* C17: when the requested tool is in the dynamic-tool map, the static
\* handler is not called and the tool is invoked with the arguments of the
\* call; if the invocation raises, the result has status "error", the
\* message of the exception as content and the name and tool_call_id of
\* the request; if it succeeds, the result is a non-error tool-result with
\* that name and tool_call_id.
C17_DynamicToolInvokedErrorsCaught ==
    (/\ tc_pc = "returned"
     /\ \/ tc_request.name \in DOMAIN tc_ctx.dynamic_tools
        \/ "invoke" \in CallsMade) =>
        /\ tc_log = << [call |-> "invoke", arg |-> tc_request.args] >>
        /\ tc_out.raised = ""
        /\ tc_out.value.type = "tool"
        /\ tc_out.value.name = tc_request.name
        /\ tc_out.value.tool_call_id = tc_request.id
        /\ IF tc_request.invoke_raises
           THEN tc_out.value.status = "error" /\ tc_out.value.content = << "STR_EXC" >>
           ELSE tc_out.value.status # "error"

C17_Witness ==
    /\ tc_pc = "returned"
    /\ tc_request.name \in DOMAIN tc_ctx.dynamic_tools
    /\ tc_request.invoke_raises
    /\ tc_request.handler_raises
    /\ tc_out.raised = ""
    /\ tc_out.value.status = "error"

\* The canonical names of the configs of ts that build.
RebuiltNames(ts) ==
    { BuildToolFromConfig(ts[i]).name :
        i \in { k \in 1..Len(ts) : BuildToolFromConfig(ts[k]).raised = "" } }

\* C28: one dispatch of a tool call never changes the ToolConfig list of
\* the context; when the dynamic-tool map is non-empty the context is left
\* as it was; when the map is empty, the name therefore absent, and the
\* context holds ToolConfigs, the map is rebuilt from them (and stored in a
\* DragonAgentContext), and if a config builds under the requested name
\* that tool is invoked and the static handler is not called.
C28_RebuildOnEmptyMapOnly ==
    [][(tc_pc = "call" /\ tc_pc' = "returned") =>
          /\ tc_ctx'.tools = tc_ctx.tools
          /\ DOMAIN tc_ctx.dynamic_tools # {} => tc_ctx' = tc_ctx
          /\ (/\ tc_ctx.kind \in { "ctx", "dict" }
              /\ DOMAIN tc_ctx.dynamic_tools = {}
              /\ tc_ctx.tools # << >>) =>
                 /\ tc_out'.raised = ""
                 /\ tc_ctx.kind = "ctx" =>
                        DOMAIN tc_ctx'.dynamic_tools = RebuiltNames(tc_ctx.tools)
                 /\ tc_request.name \in RebuiltNames(tc_ctx.tools) =>
                        { tc_log'[k].call : k \in 1..Len(tc_log') } = { "invoke" }
    ]_vars

(***************************************************************************)
(* apply_user_namespace_scoping (agent_server/api/store.py) and the store  *)
(* operation that uses what it returns.                                    *)
(***************************************************************************)
UserIds == { "u1", "u2" }

NamespaceParts == { "users", "u1", "u2", "kb" }

Namespaces == SeqsUpTo(NamespaceParts, MaxNsLen)

\* apply_user_namespace_scoping(user_id, namespace)
ApplyUserNamespaceScoping(user_id, namespace) ==
    IF namespace = << >> THEN << "users", user_id >>
    ELSE IF namespace[1] = "users" /\ Len(namespace) >= 2 /\ namespace[2] = user_id
    THEN namespace
    ELSE namespace

InitStore ==
    /\ st_user \in UserIds
    /\ st_namespace \in Namespaces
    /\ st_out = << >>
    /\ st_pc = "call"
    /\ StoreRestIdle

\* put_store_item / get / delete / search: the namespace the store is
\* addressed with.
StoreOperation ==
    /\ st_pc = "call"
    /\ st_out' = ApplyUserNamespaceScoping(st_user, st_namespace)
    /\ st_pc' = "returned"
    /\ UNCHANGED << st_user, st_namespace, store_rest >>

NextStore == StoreOperation

SpecStore == InitStore /\ [][NextStore]_vars

(***************************************************************************)
(* Claims about the store namespace.                                       *)
(***************************************************************************)
HasUserPrefix(ns, user_id) ==
    /\ Len(ns) >= 2
    /\ ns[1] = "users"
    /\ ns[2] = user_id

\* C21: the namespace a store operation uses begins with
\* ["users", user_id]: the caller's namespace is kept when it already
\* starts with that prefix and gets the prefix added otherwise.
C21_NamespaceScopedToUser ==
    st_pc = "returned" =>
        /\ HasUserPrefix(st_out, st_user)
        /\ st_out = IF HasUserPrefix(st_namespace, st_user) THEN st_namespace
                    ELSE << "users", st_user >> \o st_namespace

(***************************************************************************)
(* One call of build_tool_from_config inside the try of                    *)
(* _build_runtime_tooling, with the log records it emits.                  *)
(*                                                                         *)
(* The url of the config is given by what urlparse makes of it: scheme,    *)
(* netloc, hostname, path, query, fragment ("" when the part is absent);   *)
(* the empty string parses to six empty parts.  The netloc ":80" is a port *)
(* without a host.  The schema is one of SchemaKinds; the description a    *)
(* sequence of tokens.                                                     *)
(***************************************************************************)
ParsedUrls ==
    { [scheme |-> s, netloc |-> n, hostname |-> IF n = "h" THEN "h" ELSE "",
       path |-> p, query |-> q, fragment |-> f] :
        s \in { "https", "http", "ftp", "" }, n \in { "h", ":80", "" },
        p \in { "", "/p" }, q \in { "", "token=SECRET" }, f \in { "", "frag" } }

SchemaKinds ==
    { "object", "empty_object", "absent", "null", "list", "empty_list",
      "string", "empty_string", "number", "zero", "true", "false" }

Descriptions == { << >>, << "DESC" >> }

OneConfigs ==
    { [is_dict |-> TRUE, has_name |-> hn, name |-> n, url |-> u, schema |-> s,
       description |-> ds] :
        hn \in BOOLEAN, n \in ConfigNames, u \in ParsedUrls, s \in SchemaKinds,
        ds \in Descriptions }

\* "if url": the url string is not empty
UrlGiven(url) ==
    ~(url.scheme = "" /\ url.netloc = "" /\ url.path = "" /\ url.query = ""
        /\ url.fragment = "")

\* _redact_url(url)
RedactUrl(url) ==
    IF url.scheme = "" \/ url.netloc = "" THEN url
    ELSE [url EXCEPT !.query = "", !.fragment = ""]

NoUrl ==
    [scheme |-> "", netloc |-> "", hostname |-> "", path |-> "", query |-> "",
     fragment |-> ""]

\* Mutant: the note is appended to every description.
ToolDescription_AlwaysNote(cfg) ==
    (IF cfg.description # << >> THEN cfg.description \o << "\n\n" >> ELSE << >>)
        \o << "NOTE" >>

\* tool_description (lines 233-239)
ToolDescription(cfg) ==
    IF SanitizeToolName(RawNameOf(cfg)).changed
    THEN (IF cfg.description # << >> THEN cfg.description \o << "\n\n" >> ELSE << >>)
             \o << "NOTE" >>
    ELSE cfg.description

\* The records logged for cfg by build_tool_from_config and by the except
\* handler of _build_runtime_tooling: the event and the url in the record.
BuildLogs(cfg) ==
    LET tool == BuildToolFromConfig(cfg)
        start == [event |-> "dynamic_tool.build.start",
                  url |-> IF UrlGiven(cfg.url) THEN RedactUrl(cfg.url) ELSE NoUrl]
    IN  IF ~cfg.is_dict THEN << >>
        ELSE IF tool.raised = "ValueError"
        THEN << start, [event |-> "Failed to build dynamic tool", url |-> cfg.url] >>
        ELSE IF tool.raised # ""
        THEN << start, [event |-> "Failed to build dynamic tool", url |-> NoUrl] >>
        ELSE << start,
                [event |-> "dynamic_tool.build.schema", url |-> NoUrl],
                [event |-> "dynamic_tool.build.succeeded", url |-> RedactUrl(cfg.url)] >>

InitOne ==
    /\ bo_cfg \in { c \in OneConfigs : c.has_name \/ c.name = << >> }
    /\ bo_out = << >>
    /\ bo_log = << >>
    /\ bo_pc = "call"
    /\ OneRestIdle

\* build_tool_from_config(cfg) returns the tool.
BuildOne ==
    /\ bo_pc = "call"
    /\ BuildToolFromConfig(bo_cfg).raised = ""
    /\ bo_out' = [raised |-> "", name |-> BuildToolFromConfig(bo_cfg).name,
                  description |-> ToolDescription(bo_cfg)]
    /\ bo_log' = BuildLogs(bo_cfg)
    /\ bo_pc' = "returned"
    /\ UNCHANGED << bo_cfg, one_rest >>

\* build_tool_from_config(cfg) raises; the handler logs the warning.
BuildOneRejected ==
    /\ bo_pc = "call"
    /\ BuildToolFromConfig(bo_cfg).raised # ""
    /\ bo_out' = [raised |-> BuildToolFromConfig(bo_cfg).raised, name |-> << >>,
                  description |-> << >>]
    /\ bo_log' = BuildLogs(bo_cfg)
    /\ bo_pc' = "returned"
    /\ UNCHANGED << bo_cfg, one_rest >>

NextOne == BuildOne \/ BuildOneRejected

SpecBuildOne == InitOne /\ [][NextOne]_vars

(***************************************************************************)
(* Claims about build_tool_from_config.                                    *)
(***************************************************************************)
\* C22: a tool is built only if the url has scheme http or https and a
\* non-empty host; for every other url the build fails with a
\* configuration error (ValueError) and no tool.
C22_ToolOnlyForHttpUrlWithHost ==
    bo_pc = "returned" =>
        IF bo_cfg.url.scheme \in { "http", "https" } /\ bo_cfg.url.hostname # ""
        THEN TRUE
        ELSE bo_out.raised = "ValueError"

\* C23: a schema that is present but is no mapping (a list, a string, a
\* number, a boolean, the empty and zero ones included) makes the build
\* fail with a TypeError.
C23_NonMappingSchemaIsTypeError ==
    (/\ bo_pc = "returned"
     /\ bo_cfg.url.scheme \in { "http", "https" }
     /\ bo_cfg.url.netloc # ""
     /\ bo_cfg.schema \in { "list", "empty_list", "string", "empty_string",
                            "number", "zero", "true", "false" }) =>
        bo_out.raised = "TypeError"

\* The name given in the ToolConfig.
GivenName == IF bo_cfg.has_name THEN bo_cfg.name ELSE << >>

HasNote == \E k \in 1..Len(bo_out.description) : bo_out.description[k] = "NOTE"

\* C29 as stated: the description of a built tool holds the note exactly
\* when the canonical name differs from the name given in the ToolConfig;
\* without the note it is the configured description.
C29_NoteIffNameDiffers ==
    (bo_pc = "returned" /\ bo_out.raised = "") =>
        /\ HasNote <=> bo_out.name # GivenName
        /\ ~HasNote => bo_out.description = bo_cfg.description

\* C29, amended: the description holds the note exactly when the canonical
\* name differs from the given name with its surrounding whitespace
\* removed; without the note it is the configured description.
C29_NoteIffStrippedNameDiffers ==
    (bo_pc = "returned" /\ bo_out.raised = "") =>
        /\ HasNote <=> bo_out.name # Strip(GivenName, Whitespace)
        /\ ~HasNote => bo_out.description = bo_cfg.description

C29_Witness ==
    /\ bo_pc = "returned"
    /\ bo_out.raised = ""
    /\ bo_cfg.name = << "a", " ", "a" >>
    /\ bo_out.description = << "DESC", "\n\n", "NOTE" >>

\* C30: no log record of a build holds the query string or the fragment of
\* the configured url.
C30_LogsHoldNoQueryOrFragment ==
    \A k \in 1..Len(bo_log) :
        /\ bo_cfg.url.query # "" => bo_log[k].url.query # bo_cfg.url.query
        /\ bo_cfg.url.fragment # "" => bo_log[k].url.fragment # bo_cfg.url.fragment

(***************************************************************************)
(* search_knowledge_base and store_knowledge (knowledge_base_tools.py).    *)
(*                                                                         *)
(* kb_config is config["configurable"]: metadata is "dict", "absent" or    *)
(* "none" (present, no mapping); external is metadata's                    *)
(* external_assistant_id and assistant_id the local id, each "ABSENT",     *)
(* "NONE", "" or an id.  A store call is a record [op, namespace, arg].    *)
(***************************************************************************)
KbIdValues == { "ABSENT", "NONE", "" }

KbConfigs ==
    { [metadata |-> m, external |-> e, assistant_id |-> a] :
        m \in { "dict", "absent", "none" },
        e \in KbIdValues \cup { "ext" },
        a \in KbIdValues \cup { "local" } }

KbQueries == { "q1", "q2" }
KbTitles == { "t1", "t2" }
KbContents == { "c1", "c2" }
SearchOutcomes == { "none", "some", "raises" }
PutOutcomes == { "stored", "raises" }

\* x or y on ids: "ABSENT", "NONE" and "" are falsy
IdOr(x, y) == IF x \notin KbIdValues THEN x ELSE y

\* Mutant: the local id is preferred.
AssistantIdOf_LocalFirst(configurable) ==
    LET external_assistant_id ==
            IF configurable.metadata = "dict" THEN configurable.external ELSE "NONE"
    IN  IdOr(configurable.assistant_id, external_assistant_id)

\* Lines 32-37 and 96-103: the id used for the namespace (falsy when none).
AssistantIdOf(configurable) ==
    LET external_assistant_id ==
            IF configurable.metadata = "dict" THEN configurable.external ELSE "NONE"
    IN  IdOr(external_assistant_id, configurable.assistant_id)

InitKb ==
    /\ kb_config \in { c \in KbConfigs : c.metadata = "dict" \/ c.external = "ABSENT" }
    /\ kb_calls = << >>
    /\ kb_out = << >>
    /\ kb_pc = "call"
    /\ KbRestIdle

\* search_knowledge_base(query, store), the store answering as outcome.
SearchKnowledgeBase ==
    /\ kb_pc = "call"
    /\ \E query \in KbQueries, outcome \in SearchOutcomes :
          LET assistant_id == AssistantIdOf(kb_config)
          IN  IF assistant_id \in KbIdValues
              THEN /\ kb_out' = Returned("Error: No se identifico el asistente. Verifica")
                   /\ kb_calls' = kb_calls
              ELSE /\ kb_calls' = Append(kb_calls,
                                         [op |-> "asearch",
                                          namespace |-> << "knowledge", assistant_id >>,
                                          arg |-> << query >>])
                   /\ kb_out' = IF outcome = "raises" THEN Raised("Exception")
                                ELSE IF outcome = "none"
                                THEN Returned("No encontre informacion relevante")
                                ELSE Returned("RESULTS")
    /\ kb_pc' = "returned"
    /\ UNCHANGED << kb_config, kb_rest >>

\* store_knowledge(content, title, store), the store answering as outcome.
StoreKnowledge ==
    /\ kb_pc = "call"
    /\ \E title \in KbTitles, content \in KbContents, outcome \in PutOutcomes :
          LET assistant_id == AssistantIdOf(kb_config)
          IN  IF assistant_id \in KbIdValues
              THEN /\ kb_out' = Returned("Error: No se identifico el asistente. No puedo")
                   /\ kb_calls' = kb_calls
              ELSE /\ kb_calls' = Append(kb_calls,
                                         [op |-> "aput",
                                          namespace |-> << "knowledge", assistant_id >>,
                                          arg |-> << "md5", title, content >>])
                   /\ kb_out' = IF outcome = "raises" THEN Raised("Exception")
                                ELSE Returned("Conocimiento almacenado")
    /\ kb_pc' = "returned"
    /\ UNCHANGED << kb_config, kb_rest >>

NextKb == SearchKnowledgeBase \/ StoreKnowledge

SpecKb == InitKb /\ [][NextKb]_vars

(***************************************************************************)
(* Claims about the knowledge-base tools.                                  *)
(***************************************************************************)
\* The identifier the claim names: the metadata's external_assistant_id
\* when non-empty, the local assistant_id otherwise, "" when neither.
ExpectedAssistantId ==
    IF kb_config.metadata = "dict" /\ kb_config.external \notin { "ABSENT", "NONE", "" }
    THEN kb_config.external
    ELSE IF kb_config.assistant_id \notin { "ABSENT", "NONE", "" }
    THEN kb_config.assistant_id
    ELSE ""

NotIdentifiedMessages ==
    { "Error: No se identifico el asistente. Verifica",
      "Error: No se identifico el asistente. No puedo" }

\* C34: the store is only ever called with namespace ("knowledge", id), id
\* being the external_assistant_id when non-empty and the local
\* assistant_id otherwise; when neither is present no store call is made
\* and an "assistant not identified" message is returned, no exception.
C34_NamespaceIsKnowledgeOfAssistant ==
    /\ \A k \in 1..Len(kb_calls) :
          /\ ExpectedAssistantId # ""
          /\ kb_calls[k].namespace = << "knowledge", ExpectedAssistantId >>
    /\ (kb_pc = "returned" /\ ExpectedAssistantId = "") =>
          /\ kb_calls = << >>
          /\ kb_out.raised = ""
          /\ kb_out.value \in NotIdentifiedMessages
    /\ (kb_pc = "returned" /\ ExpectedAssistantId # "") => Len(kb_calls) = 1

C34_Witness ==
    /\ kb_pc = "returned"
    /\ kb_config.external = "ext"
    /\ kb_config.assistant_id = "local"
    /\ Len(kb_calls) = 1
    /\ kb_calls[1].namespace = << "knowledge", "ext" >>

(***************************************************************************)
(* Two tool-call dispatches of one turn sharing the runtime context.       *)
(*                                                                         *)
(* Each dispatch runs wrap_tool_call / awrap_tool_call line by line:       *)
(* "lookup" (_lookup_runtime_tool), "available"                            *)
(* (_get_available_dynamic_tools), "rebuild" (lines 217-221 / 294-298),    *)
(* "call" (the handler or the tool), then "done" or "raised".  In mode     *)
(* "tasks" the dispatches are coroutines of one event loop, which switches *)
(* only at an await (the call); in mode "threads" they are threads of the  *)
(* executor and may switch between any two lines.                          *)
(***************************************************************************)
PairToolLists ==
    { << >>,
      << ValidConfig(<< "a" >>) >>,
      << ValidConfig(<< "a" >>), ValidConfig(<< "a", " ", "a" >>) >>,
      << NotAMapping >> }

PairContexts ==
    UNION { { [NewContext EXCEPT !.kind = k, !.tools = ts, !.dynamic_tools = m] :
                k \in { "ctx", "dict" }, m \in StoredMaps(ts) } :
            ts \in PairToolLists }

PairRequests ==
    { [name |-> n, id |-> "", args |-> "ARGS", handler_raises |-> r, invoke_raises |-> r] :
        n \in { << "a" >>, << "a", "_", "a" >>, StaticTool.spec.function.name },
        r \in BOOLEAN }

Dispatches == { 1, 2 }

InitPair ==
    /\ pa_mode \in { "tasks", "threads" }
    /\ pa_ctx \in PairContexts
    /\ \E r1, r2 \in PairRequests :
          pa_reqs = << [r1 EXCEPT !.id = "call_1"], [r2 EXCEPT !.id = "call_2"] >>
    /\ pa_pc = << "lookup", "lookup" >>
    /\ pa_tool = << NoTool, NoTool >>
    /\ pa_avail = << {}, {} >>
    /\ pa_out = << << >>, << >> >>
    /\ PairRestIdle

\* Dispatch i may take its next step: in one event loop a coroutine that
\* has started runs on to its await.
MayRun(i) ==
    \/ pa_mode = "threads"
    \/ \A j \in Dispatches \ { i } : pa_pc[j] \in { "lookup", "call", "done", "raised" }

\* The dynamic-tool map _lookup_runtime_tool and
\* _get_available_dynamic_tools read from the context.
MapOf(c) == IF c.kind \in { "ctx", "dict" } THEN c.dynamic_tools ELSE EmptyMap

\* tool = self._lookup_runtime_tool(request)
PairLookup(i) ==
    /\ pa_pc[i] = "lookup"
    /\ MayRun(i)
    /\ pa_tool' = [pa_tool EXCEPT ![i] =
                      IF pa_reqs[i].name \in DOMAIN MapOf(pa_ctx)
                      THEN MapOf(pa_ctx)[pa_reqs[i].name] ELSE NoTool]
    /\ pa_pc' = [pa_pc EXCEPT ![i] = "available"]
    /\ UNCHANGED << pa_mode, pa_ctx, pa_reqs, pa_avail, pa_out, pair_rest >>

\* available_tools = self._get_available_dynamic_tools(request), and the
\* test "if tool is None and not available_tools ... if context and
\* context.tools".
PairAvailable(i) ==
    /\ pa_pc[i] = "available"
    /\ MayRun(i)
    /\ pa_avail' = [pa_avail EXCEPT ![i] = DOMAIN MapOf(pa_ctx)]
    /\ pa_pc' = [pa_pc EXCEPT ![i] =
                    IF /\ pa_tool[i] = NoTool
                       /\ DOMAIN MapOf(pa_ctx) = {}
                       /\ pa_ctx.kind \in { "ctx", "dict" }
                       /\ pa_ctx.tools # << >>
                    THEN "rebuild" ELSE "call"]
    /\ UNCHANGED << pa_mode, pa_ctx, pa_reqs, pa_tool, pa_out, pair_rest >>

\* dynamic_tools, _ = self._build_runtime_tooling(context);
\* context.dynamic_tools = dynamic_tools; tool = dynamic_tools.get(tool_name)
PairRebuild(i) ==
    /\ pa_pc[i] = "rebuild"
    /\ MayRun(i)
    /\ LET built == BuildRuntimeTooling(pa_ctx)
       IN  IF built.raised
           THEN /\ pa_out' = [pa_out EXCEPT ![i] = Raised("Exception")]
                /\ pa_pc' = [pa_pc EXCEPT ![i] = "raised"]
                /\ UNCHANGED << pa_ctx, pa_tool, pa_avail >>
           ELSE /\ pa_ctx' = IF pa_ctx.kind = "ctx"
                             THEN [pa_ctx EXCEPT !.dynamic_tools = built.dynamic_tools]
                             ELSE pa_ctx
                /\ pa_tool' = [pa_tool EXCEPT ![i] =
                                  IF pa_reqs[i].name \in DOMAIN built.dynamic_tools
                                  THEN built.dynamic_tools[pa_reqs[i].name] ELSE NoTool]
                /\ pa_avail' = [pa_avail EXCEPT ![i] = DOMAIN built.dynamic_tools]
                /\ pa_pc' = [pa_pc EXCEPT ![i] = "call"]
                /\ UNCHANGED pa_out
    /\ UNCHANGED << pa_mode, pa_reqs, pair_rest >>

\* The static handler or the dynamic tool is called and the dispatch
\* returns its ToolMessage.
PairCall(i) ==
    /\ pa_pc[i] = "call"
    /\ MayRun(i)
    /\ pa_out' = [pa_out EXCEPT ![i] =
                     IF pa_tool[i] = NoTool THEN Returned(StaticResult(pa_reqs[i]))
                     ELSE Returned(DynamicResult(pa_reqs[i]))]
    /\ pa_pc' = [pa_pc EXCEPT ![i] = "done"]
    /\ UNCHANGED << pa_mode, pa_ctx, pa_reqs, pa_tool, pa_avail, pair_rest >>

NextPair ==
    \E i \in Dispatches : PairLookup(i) \/ PairAvailable(i) \/ PairRebuild(i) \/ PairCall(i)

SpecPair == InitPair /\ [][NextPair]_vars

(***************************************************************************)
(* Claims about concurrent dispatches.                                     *)
(***************************************************************************)
\* The names of the configs of ts that build (the keys of the map built).
BuiltNames(ts) ==
    { BuildToolFromConfig(ts[i]).name :
        i \in { k \in 1..Len(ts) : BuildToolFromConfig(ts[k]).raised = "" } }

\* What dispatch i returns when it runs alone on the turn's context: the
\* result of the dynamic tool when a config builds under the requested
\* name, that of the static handler otherwise.
AloneResult(i) ==
    IF pa_reqs[i].name \in BuiltNames(pa_ctx.tools)
    THEN [type |-> "tool", tool_calls |-> << >>, tool_call_id |-> pa_reqs[i].id,
          name |-> pa_reqs[i].name,
          content |-> IF pa_reqs[i].invoke_raises THEN << "STR_EXC" >> ELSE << "OUTPUT" >>,
          status |-> IF pa_reqs[i].invoke_raises THEN "error" ELSE "success"]
    ELSE [type |-> "tool", tool_calls |-> << >>, tool_call_id |-> pa_reqs[i].id,
          name |-> pa_reqs[i].name,
          content |-> IF pa_reqs[i].handler_raises
                      THEN << "Error: Tool ", pa_reqs[i].name, " is not available" >>
                      ELSE << "HANDLER_RESULT" >>,
          status |-> IF pa_reqs[i].handler_raises THEN "error" ELSE "success"]

BothFinished == \A i \in Dispatches : pa_pc[i] \in { "done", "raised" }

\* C35: whatever the interleaving of the two dispatches, each returns a
\* tool-result with its own tool_call_id and tool name, equal to the
\* result it returns when run alone, and the context's dynamic-tool map
\* ends equal to the map built from the turn's ToolConfigs.
C35_DispatchesIndependent ==
    BothFinished =>
        /\ \A i \in Dispatches :
              /\ pa_out[i].raised = ""
              /\ pa_out[i].value = AloneResult(i)
        /\ DOMAIN pa_ctx.dynamic_tools = BuiltNames(pa_ctx.tools)

(***************************************************************************)
(* The blocking and the non-blocking path on the same inputs:              *)
(* wrap_model_call / awrap_model_call, wrap_tool_call / awrap_tool_call,   *)
(* _func / _afunc.  Each operator below is the translation of its own      *)
(* method; the helpers both methods call are shared.                       *)
(***************************************************************************)
\* wrap_model_call (lines 90-117): the outcomes it may have, one per order
\* in which the validator may visit the missing ids.
WrapModelCall(request, c) ==
    LET context == EnsureContext(c)
        built == BuildRuntimeTooling(context)
        s_cleaned == IF request.state_has_messages
                   THEN { [request EXCEPT !.state_messages = m] :
                            m \in ValidateAndCleanMessages(request.state_messages) }
                   ELSE { request }
    IN  IF built.raised
        THEN { [raised |-> TRUE, forwarded |-> << >>, context |-> context] }
        ELSE { [raised |-> FALSE,
                forwarded |-> WithDynamicTools(r, built.tool_specs),
                context |-> [context EXCEPT !.dynamic_tools = built.dynamic_tools]] :
                 r \in s_cleaned }

\* Mutant: the non-blocking path does not validate the history.
AwrapModelCall_NoValidation(request, c) ==
    LET context == EnsureContext(c)
        built == BuildRuntimeTooling(context)
    IN  IF built.raised
        THEN { [raised |-> TRUE, forwarded |-> << >>, context |-> context] }
        ELSE { [raised |-> FALSE,
                forwarded |-> WithDynamicTools(request, built.tool_specs),
                context |-> [context EXCEPT !.dynamic_tools = built.dynamic_tools]] }

\* awrap_model_call (lines 119-149)
AwrapModelCall(request, c) ==
    LET context == EnsureContext(c)
        built == BuildRuntimeTooling(context)
        a_tool_specs == built.tool_specs
        a_cleaned == IF request.state_has_messages
                   THEN { [request EXCEPT !.state_messages = m] :
                            m \in ValidateAndCleanMessages(request.state_messages) }
                   ELSE { request }
        Overridden(r) ==
            IF a_tool_specs # << >>
            THEN [r EXCEPT !.tools = r.tools \o a_tool_specs,
                           !.tool_choice =
                               ResolveToolChoice(
                                   IF r.state_has_messages THEN r.state_messages
                                   ELSE << >>,
                                   a_tool_specs, r.tool_choice)]
            ELSE r
    IN  IF built.raised
        THEN { [raised |-> TRUE, forwarded |-> << >>, context |-> context] }
        ELSE { [raised |-> FALSE, forwarded |-> Overridden(r),
                context |-> [context EXCEPT !.dynamic_tools = built.dynamic_tools]] :
                 r \in a_cleaned }

\* wrap_tool_call (lines 201-276): what it returns or raises, the context
\* after it, and the callee it called.
WrapToolCall(c, request) ==
    LET found == LookupTool(c, request.name)
    IN  IF found.raised
        THEN [out |-> Raised("Exception"), context |-> c, called |-> "none"]
        ELSE IF found.tool = NoTool
        THEN [out |-> Returned(StaticResult(request)), context |-> found.context,
              called |-> "handler"]
        ELSE [out |-> Returned(DynamicResult(request)), context |-> found.context,
              called |-> "tool"]

\* awrap_tool_call (lines 278-353)
AwrapToolCall(c, request) ==
    LET tool_name == request.name
        tool_call_id == request.id
        existing == IF c.kind \in { "ctx", "dict" } THEN c.dynamic_tools ELSE EmptyMap
        rebuilds == /\ tool_name \notin DOMAIN existing
                    /\ DOMAIN existing = {}
                    /\ c.kind \in { "ctx", "dict" }
                    /\ c.tools # << >>
        built == BuildRuntimeTooling(c)
        a_dynamic_tools == IF rebuilds THEN built.dynamic_tools ELSE existing
        context == IF rebuilds /\ c.kind = "ctx"
                   THEN [c EXCEPT !.dynamic_tools = built.dynamic_tools] ELSE c
    IN  IF rebuilds /\ built.raised
        THEN [out |-> Raised("Exception"), context |-> c, called |-> "none"]
        ELSE IF tool_name \notin DOMAIN a_dynamic_tools
        THEN [out |-> Returned(
                        IF request.handler_raises
                        THEN ToolMessage(<< "Error: Tool ", tool_name, " is not available" >>,
                                         tool_name, tool_call_id, "error")
                        ELSE ToolMessage(<< "HANDLER_RESULT" >>, tool_name, tool_call_id,
                                         "success")),
              context |-> context, called |-> "handler"]
        ELSE [out |-> Returned(
                        IF request.invoke_raises
                        THEN ToolMessage(<< "STR_EXC" >>, tool_name, tool_call_id, "error")
                        ELSE ToolMessage(<< "OUTPUT" >>, tool_name, tool_call_id,
                                         "success")),
              context |-> context, called |-> "tool"]

\* _func(**kwargs): the body posted and the result, or the ValidationError
Func(schema, kwargs, ev) ==
    IF ValidationFails(schema, kwargs)
    THEN [posted |-> << >>, result |-> Raised("ValidationError")]
    ELSE [posted |-> << Payload(schema, kwargs) >>, result |-> DoPost(ev)]

\* _afunc(**kwargs): _do_post runs in a worker thread
\* (anyio.to_thread.run_sync), its result or exception is handed back.
Afunc(schema, kwargs, ev) ==
    IF ValidationFails(schema, kwargs)
    THEN [posted |-> << >>, result |-> Raised("ValidationError")]
    ELSE LET payload == Payload(schema, kwargs)
         IN  [posted |-> << payload >>, result |-> DoPost(ev)]

EqEvents ==
    { ev \in PostEvents :
        /\ ev.timeout = "(10, 30)"
        /\ ev.kind = "exception" => ev.cls \in { "Timeout", "ValueError" }
        /\ ev.kind = "response" => ev.status_code \in { 200, 404 } }

EqCases ==
    { [kind |-> "model", request |-> r, context |-> c] :
        r \in { [state_has_messages |-> TRUE, state_messages |-> h, messages |-> h,
                 tools |-> << StaticTool >>, tool_choice |-> tc,
                 system_prompt |-> << >>] :
                  h \in Histories, tc \in { NoChoice, RequiredChoice } },
        c \in TurnContexts }
    \cup { [kind |-> "tool", request |-> r, context |-> c] :
             r \in CallRequests, c \in CallContexts }
    \cup { [kind |-> "func", schema |-> s, kwargs |-> k, event |-> ev] :
             s \in { x \in Schemas :
                       /\ Len(x.props) <= 1
                       /\ x.required \subseteq { x.props[i] : i \in 1..Len(x.props) } },
             k \in UNION { [keys -> { "x", "null" }] :
                             keys \in { {}, { << "t" >> }, { << "o" >> } } },
             ev \in EqEvents }

InitEq ==
    /\ eq_case \in EqCases
    /\ eq_sync = << >>
    /\ eq_async = << >>
    /\ eq_pc = {}
    /\ EqRestIdle

\* The blocking path runs.
RunSync ==
    /\ "sync" \notin eq_pc
    /\ eq_sync' = IF eq_case.kind = "model"
                  THEN << WrapModelCall(eq_case.request, eq_case.context) >>
                  ELSE IF eq_case.kind = "tool"
                  THEN << WrapToolCall(eq_case.context, eq_case.request) >>
                  ELSE << Func(eq_case.schema, eq_case.kwargs, eq_case.event) >>
    /\ eq_pc' = eq_pc \cup { "sync" }
    /\ UNCHANGED << eq_case, eq_async, eq_rest >>

\* The non-blocking path runs.
RunAsync ==
    /\ "async" \notin eq_pc
    /\ eq_async' = IF eq_case.kind = "model"
                   THEN << AwrapModelCall(eq_case.request, eq_case.context) >>
                   ELSE IF eq_case.kind = "tool"
                   THEN << AwrapToolCall(eq_case.context, eq_case.request) >>
                   ELSE << Afunc(eq_case.schema, eq_case.kwargs, eq_case.event) >>
    /\ eq_pc' = eq_pc \cup { "async" }
    /\ UNCHANGED << eq_case, eq_sync, eq_rest >>

NextEq == RunSync \/ RunAsync

SpecEq == InitEq /\ [][NextEq]_vars

(***************************************************************************)
(* Claims about the two paths.                                             *)
(***************************************************************************)
\* C36: on the same inputs the non-blocking path gives what the blocking
\* path gives: awrap_model_call forwards the same request (or raises
\* alike), awrap_tool_call returns the same tool-result after calling the
\* same callee and leaves the same context, _afunc posts the same body and
\* returns the same result.
C36_AsyncEqualsSync ==
    eq_pc = { "sync", "async" } => eq_async = eq_sync

C36_Witness ==
    /\ eq_pc = { "sync", "async" }
    /\ eq_case.kind = "tool"
    /\ eq_async[1].called = "tool"
    /\ eq_async[1].out.value.status = "error"
    /\ eq_async[1].context # eq_case.context

(***************************************************************************)
(* One turn: wrap_model_call advertises the dynamic tools, the model then  *)
(* calls one of the advertised tools by the name of its spec and           *)
(* wrap_tool_call resolves the call.                                       *)
(***************************************************************************)
MaxAdvTools == 2

AdvContexts ==
    { NoContext }
    \cup { [NewContext EXCEPT !.kind = k, !.tools = ts] :
             k \in { "ctx", "dict" }, ts \in SeqsUpTo(TurnConfigs, MaxAdvTools) }

\* A second static tool of the caller.
OtherStaticTool ==
    [spec |-> [type |-> "function", function |-> [name |-> << "f", "a", "q" >>]],
     cfg_index |-> 0]

AdvRequests ==
    { [state_has_messages |-> TRUE, state_messages |-> << >>, messages |-> << >>,
       tools |-> ts, tool_choice |-> NoChoice, system_prompt |-> << >>] :
        ts \in { << >>, << StaticTool >>, << StaticTool, OtherStaticTool >>,
                 << OtherStaticTool, StaticTool >> } }

InitAdv ==
    /\ adv_ctx \in AdvContexts
    /\ adv_req \in AdvRequests
    /\ adv_tools = << >>
    /\ adv_call = << >>
    /\ adv_pc = "model"
    /\ AdvRestIdle

\* wrap_model_call or awrap_model_call: the context keeps the map, the
\* request gets the specs.
AdvModelCall ==
    /\ adv_pc = "model"
    /\ \E o \in WrapModelCall(adv_req, adv_ctx) \cup AwrapModelCall(adv_req, adv_ctx) :
         IF o.raised
         THEN /\ adv_pc' = "raised"
              /\ UNCHANGED << adv_ctx, adv_tools >>
         ELSE /\ adv_pc' = "tool"
              /\ adv_ctx' = o.context
              /\ adv_tools' = o.forwarded.tools
    /\ UNCHANGED << adv_req, adv_call, adv_rest >>

\* The model calls the tool advertised at position i; wrap_tool_call
\* resolves the call.
AdvToolCall ==
    /\ adv_pc = "tool"
    /\ \E i \in 1..Len(adv_tools), hr \in BOOLEAN, ir \in BOOLEAN :
         LET request == [name |-> adv_tools[i].spec.function.name, id |-> "call_1",
                         args |-> "ARGS", handler_raises |-> hr, invoke_raises |-> ir]
             res == WrapToolCall(adv_ctx, request)
         IN  /\ adv_tools[i].cfg_index # 0
             /\ adv_call' = << [spec |-> adv_tools[i],
                                tool |-> LookupTool(adv_ctx, request.name).tool,
                                res |-> res] >>
             /\ adv_ctx' = res.context
    /\ adv_pc' = "done"
    /\ UNCHANGED << adv_req, adv_tools, adv_rest >>

NextAdv == AdvModelCall \/ AdvToolCall

SpecAdv == InitAdv /\ [][NextAdv]_vars

(***************************************************************************)
(* Claims about advertised tools.                                          *)
(***************************************************************************)
\* C37: a tool call that uses the function name of an advertised dynamic
\* tool spec is resolved to the compiled tool built from the ToolConfig the
\* spec was made from; it is not sent to the static handler.
C37_AdvertisedToolIsCallable ==
    adv_pc = "done" =>
        /\ adv_call[1].res.called = "tool"
        /\ adv_call[1].tool.cfg_index = adv_call[1].spec.cfg_index


\* The positions of the ToolConfigs that build, in ascending order.
RECURSIVE BuildingConfigs(_, _)
BuildingConfigs(cfgs, i) ==
    IF i > Len(cfgs) THEN << >>
    ELSE (IF BuildToolFromConfig(cfgs[i]).raised = "" THEN << i >> ELSE << >>)
         \o BuildingConfigs(cfgs, i + 1)

\* C39: when the turn yields at least one dynamic tool spec, the tools of
\* the request forwarded to the model are the tools of the request
\* received, all of them in their order, followed by the specs of the
\* ToolConfigs that built, in ToolConfig order.
C39_ToolsAreExistingThenDynamic ==
    LET built == BuildingConfigs(adv_ctx.tools, 1)
        n == Len(adv_req.tools)
    IN  (adv_pc \in { "tool", "done" } /\ built # << >>) =>
            /\ Len(adv_tools) = n + Len(built)
            /\ SubSeq(adv_tools, 1, n) = adv_req.tools
            /\ \A k \in 1..Len(built) :
                   /\ adv_tools[n + k].cfg_index = built[k]
                   /\ adv_tools[n + k].spec.function.name = adv_ctx.tools[built[k]].name

C39_Witness ==
    /\ adv_pc = "tool"
    /\ Len(adv_req.tools) = 2
    /\ Len(adv_tools) = 4
    /\ adv_tools[3].spec # adv_tools[4].spec

(***************************************************************************)
(* DoubleEncodedJSONMiddleware.__call__                                    *)
(*                                                                         *)
(* Bodies are sequences of characters.  The character "xFF" stands for a   *)
(* byte that is not UTF-8, the character "[*" for a run of opening         *)
(* brackets deeper than the interpreter's recursion limit.  JSON is cut    *)
(* down to the number 1, the empty object, and strings with the escapes    *)
(* \" and \\.                                                              *)
(***************************************************************************)
DQ == "\""
BS == "\\"

SKIP_PATHS == { "/store/items", "/store/items/search" }

\* s without its leading and trailing blanks (json skips whitespace)
RECURSIVE StripBlanks(_)
StripBlanks(s) ==
    IF s = << >> THEN s
    ELSE IF Head(s) = " " THEN StripBlanks(Tail(s))
    ELSE IF s[Len(s)] = " " THEN StripBlanks(SubSeq(s, 1, Len(s) - 1))
    ELSE s

\* The characters of a JSON string's inside, unescaped from position i on;
\* ok is FALSE on a bare quote, an unknown escape or a dangling backslash.
RECURSIVE Unescaped(_, _)
Unescaped(t, i) ==
    IF i > Len(t) THEN [ok |-> TRUE, chars |-> << >>]
    ELSE IF t[i] = DQ THEN [ok |-> FALSE, chars |-> << >>]
    ELSE IF t[i] = BS
    THEN IF i + 1 <= Len(t) /\ t[i + 1] \in { DQ, BS }
         THEN LET rest == Unescaped(t, i + 2)
              IN  [ok |-> rest.ok, chars |-> << t[i + 1] >> \o rest.chars]
         ELSE [ok |-> FALSE, chars |-> << >>]
    ELSE LET rest == Unescaped(t, i + 1)
         IN  [ok |-> rest.ok, chars |-> << t[i] >> \o rest.chars]

\* json.loads(s): the value, or the exception raised
JsonLoads(s) ==
    LET t == StripBlanks(s)
    IN  IF t = << >> THEN [raised |-> "JSONDecodeError", kind |-> "", chars |-> << >>]
        ELSE IF t[1] = "[*" THEN [raised |-> "RecursionError", kind |-> "", chars |-> << >>]
        ELSE IF t = << "1" >> THEN [raised |-> "", kind |-> "number", chars |-> << >>]
        ELSE IF t[1] = "{" /\ Len(t) >= 2 /\ StripBlanks(SubSeq(t, 2, Len(t))) = << "}" >>
        THEN [raised |-> "", kind |-> "object", chars |-> << >>]
        ELSE IF t[1] = DQ /\ Len(t) >= 2 /\ t[Len(t)] = DQ
                /\ Unescaped(SubSeq(t, 2, Len(t) - 1), 1).ok
        THEN [raised |-> "", kind |-> "str",
              chars |-> Unescaped(SubSeq(t, 2, Len(t) - 1), 1).chars]
        ELSE [raised |-> "JSONDecodeError", kind |-> "", chars |-> << >>]

RECURSIVE Escaped(_)
Escaped(chars) ==
    IF chars = << >> THEN << >>
    ELSE (IF Head(chars) \in { DQ, BS } THEN << BS, Head(chars) >> ELSE << Head(chars) >>)
         \o Escaped(Tail(chars))

\* json.dumps(value)
JsonDumps(value) ==
    IF value.kind = "number" THEN << "1" >>
    ELSE IF value.kind = "object" THEN << "{", "}" >>
    ELSE << DQ >> \o Escaped(value.chars) \o << DQ >>

\* Lines 54-79: processed_body, or the exception that is not caught
\* (JSONDecodeError, ValueError and UnicodeDecodeError are caught).
ProcessBody(body) ==
    IF body = << >> THEN [raised |-> "", processed_body |-> body]
    ELSE IF \E k \in 1..Len(body) : body[k] = "xFF"
    THEN [raised |-> "", processed_body |-> body]
    ELSE LET parsed == JsonLoads(body)
         IN  IF parsed.raised = "RecursionError"
             THEN [raised |-> "RecursionError", processed_body |-> body]
             ELSE IF parsed.raised # "" \/ parsed.kind # "str"
             THEN [raised |-> "", processed_body |-> body]
             ELSE LET inner_parsed == JsonLoads(parsed.chars)
                  IN  IF inner_parsed.raised = "RecursionError"
                      THEN [raised |-> "RecursionError", processed_body |-> body]
                      ELSE IF inner_parsed.raised # ""
                      THEN [raised |-> "", processed_body |-> body]
                      ELSE [raised |-> "", processed_body |-> JsonDumps(inner_parsed)]

\* name.lower() of a header name
LowerName(name) == IF name = "Content-Length" THEN "content-length" ELSE name

\* Lines 83-91: the headers without content-length, then the new one
RECURSIVE WithoutContentLength(_)
WithoutContentLength(headers) ==
    IF headers = << >> THEN << >>
    ELSE (IF LowerName(Head(headers)[1]) = "content-length" THEN << >>
          ELSE << Head(headers) >>)
         \o WithoutContentLength(Tail(headers))

NewHeaders(headers, processed_body) ==
    Append(WithoutContentLength(headers), << "content-length", Len(processed_body) >>)

\* dict(scope.get("headers", [])).get(b"content-type", b""): the last one wins
RECURSIVE ContentTypeOf(_)
ContentTypeOf(headers) ==
    IF headers = << >> THEN << >>
    ELSE IF headers[Len(headers)][1] = "content-type" THEN headers[Len(headers)][2]
    ELSE ContentTypeOf(SubSeq(headers, 1, Len(headers) - 1))

\* "application/json" in content_type, the value being a sequence of pieces
MentionsJson(content_type) ==
    \E k \in 1..Len(content_type) : content_type[k] = "application/json"

Collects(scope) ==
    /\ scope.type = "http"
    /\ scope.path \notin SKIP_PATHS
    /\ scope.method \in { "POST", "PUT", "PATCH" }
    /\ MentionsJson(ContentTypeOf(scope.headers))

RequestMessage(body, more_body) ==
    [type |-> "http.request", body |-> body, more_body |-> more_body]

Disconnect == [type |-> "http.disconnect", body |-> << >>, more_body |-> FALSE]

DjBodies ==
    { << >>,
      << "1" >>,
      << "{", " ", "}" >>,
      << "a" >>,
      << "xFF" >>,
      << "[*" >>,
      << DQ, "1", DQ >>,
      << DQ, "{", " ", "}", DQ >>,
      << DQ, "a", DQ >>,
      << DQ, "[*", DQ >>,
      << DQ, BS, DQ, "a", BS, DQ, DQ >> }

\* The ways the server may hand the body out: whole, cut in two after its
\* first or before its last character, or followed by an empty last chunk.
Chunkings(body) ==
    { << RequestMessage(body, FALSE) >>,
      << RequestMessage(body, TRUE), RequestMessage(<< >>, FALSE) >> }
    \cup { << RequestMessage(SubSeq(body, 1, k), TRUE),
              RequestMessage(SubSeq(body, k + 1, Len(body)), FALSE) >> :
             k \in { x \in { 1, Len(body) - 1 } : x >= 1 /\ x < Len(body) } }

\* What the server hands out: the chunks, or some of them and a disconnect.
Inboxes(body) ==
    UNION { { chunks } \cup { Append(SubSeq(chunks, 1, k), Disconnect) :
                               k \in 0..(Len(chunks) - 1) } :
              chunks \in Chunkings(body) }

DjContentTypes ==
    { << "application/json" >>, << "application/json", "; charset=utf-8" >>,
      << "Application/JSON" >>, << "text/plain" >> }

DjHeaders ==
    { << >> } \cup
    UNION { { << << "content-type", ct >> >>,
              << << "content-length", 9 >>, << "content-type", ct >> >>,
              << << "Content-Length", 9 >>, << "content-type", ct >>,
                 << "content-length", 9 >> >> } : ct \in DjContentTypes }

DjScopes ==
    { [type |-> "websocket", path |-> "/threads", method |-> "GET", headers |-> << >>] }
    \cup { [type |-> "http", path |-> p, method |-> m, headers |-> h] :
             p \in { "/threads", "/store/items" },
             m \in { "GET", "POST", "PATCH" },
             h \in DjHeaders }

MaxReceives == 3

InitDj ==
    /\ \E scope \in DjScopes, body \in DjBodies :
         \E inbox \in Inboxes(body) :
            /\ dj_case = [scope |-> scope, body |-> body, inbox |-> inbox]
            /\ dj_scope = scope
            /\ dj_inbox = inbox
    /\ dj_parts = << >>
    /\ dj_processed = << >>
    /\ dj_recv = "none"
    /\ dj_body_sent = FALSE
    /\ dj_got = << >>
    /\ dj_pc = "call"
    /\ DjRestIdle

\* Lines 24-39 and 109-110: the requests that are not collected go to the
\* app with the receive of the server.
DjCall ==
    /\ dj_pc = "call"
    /\ IF Collects(dj_scope)
       THEN /\ dj_pc' = "collect"
            /\ UNCHANGED dj_recv
       ELSE /\ dj_pc' = "app"
            /\ dj_recv' = "original"
    /\ UNCHANGED << dj_case, dj_scope, dj_inbox, dj_parts, dj_processed, dj_body_sent,
                    dj_got, dj_rest >>

RECURSIVE Joined(_)
Joined(parts) == IF parts = << >> THEN << >> ELSE Head(parts) \o Joined(Tail(parts))

\* Lines 43-51: one message of the body is received; a disconnect sends the
\* request to the app with the receive of the server.
DjCollect ==
    /\ dj_pc = "collect"
    /\ dj_inbox # << >>
    /\ LET message == Head(dj_inbox)
       IN  /\ dj_inbox' = Tail(dj_inbox)
           /\ IF message.type = "http.disconnect"
              THEN /\ dj_pc' = "app"
                   /\ dj_recv' = "original"
                   /\ UNCHANGED dj_parts
              ELSE /\ dj_parts' = Append(dj_parts, message.body)
                   /\ dj_pc' = IF message.more_body THEN "collect" ELSE "process"
                   /\ UNCHANGED dj_recv
    /\ UNCHANGED << dj_case, dj_scope, dj_processed, dj_body_sent, dj_got, dj_rest >>

\* Lines 53-108: the body is joined and processed, the content-length is
\* renewed when the body changed, and the app is called with
\* receive_wrapper; or json raises an exception that is not caught.
DjProcess ==
    /\ dj_pc = "process"
    /\ LET body == Joined(dj_parts)
           p == ProcessBody(body)
       IN  IF p.raised # ""
           THEN /\ dj_pc' = "raised"
                /\ UNCHANGED << dj_scope, dj_processed, dj_recv >>
           ELSE /\ dj_processed' = p.processed_body
                /\ dj_scope' = IF p.processed_body # body
                               THEN [dj_scope EXCEPT
                                       !.headers = NewHeaders(@, p.processed_body)]
                               ELSE dj_scope
                /\ dj_recv' = "wrapper"
                /\ dj_pc' = "app"
    /\ UNCHANGED << dj_case, dj_inbox, dj_parts, dj_body_sent, dj_got, dj_rest >>

\* The app awaits its receive.  receive_wrapper (lines 96-106) gives the
\* processed body once and then what the server's receive gives; the
\* server gives its next message, a disconnect when it has none left.
DjAppReceive ==
    /\ dj_pc = "app"
    /\ Len(dj_got) < MaxReceives
    /\ IF dj_recv = "wrapper" /\ ~dj_body_sent
       THEN /\ dj_body_sent' = TRUE
            /\ dj_got' = Append(dj_got, [via |-> "wrapper",
                                         msg |-> RequestMessage(dj_processed, FALSE)])
            /\ UNCHANGED dj_inbox
       ELSE /\ dj_got' = Append(dj_got,
                                [via |-> "original",
                                 msg |-> IF dj_inbox = << >> THEN Disconnect
                                         ELSE Head(dj_inbox)])
            /\ dj_inbox' = IF dj_inbox = << >> THEN << >> ELSE Tail(dj_inbox)
            /\ UNCHANGED dj_body_sent
    /\ UNCHANGED << dj_case, dj_scope, dj_parts, dj_processed, dj_recv, dj_pc, dj_rest >>

\* The app returns.
DjAppReturn ==
    /\ dj_pc = "app"
    /\ dj_pc' = "returned"
    /\ UNCHANGED << dj_case, dj_scope, dj_inbox, dj_parts, dj_processed, dj_recv,
                    dj_body_sent, dj_got, dj_rest >>

NextDj == DjCall \/ DjCollect \/ DjProcess \/ DjAppReceive \/ DjAppReturn

SpecDj == InitDj /\ [][NextDj]_vars

(***************************************************************************)
(* Claims about DoubleEncodedJSONMiddleware.                               *)
(***************************************************************************)
\* The media type is JSON, in whatever case it is written.
JsonContentType(headers) ==
    LET ct == ContentTypeOf(headers)
    IN  ct # << >> /\ ct[1] \in { "application/json", "Application/JSON" }

\* The body is the JSON text of a string that holds a JSON text.
DoubleEncoded(body) ==
    /\ \A k \in 1..Len(body) : body[k] # "xFF"
    /\ JsonLoads(body).raised = ""
    /\ JsonLoads(body).kind = "str"
    /\ JsonLoads(JsonLoads(body).chars).raised = ""

\* The request is one the claim speaks of: a JSON body on POST, PUT or PATCH
\* to a path that is not skipped, the whole body arriving.
DjInScope ==
    /\ dj_case.scope.type = "http"
    /\ dj_case.scope.method \in { "POST", "PUT", "PATCH" }
    /\ dj_case.scope.path \notin SKIP_PATHS
    /\ JsonContentType(dj_case.scope.headers)
    /\ \A k \in 1..Len(dj_case.inbox) : dj_case.inbox[k].type = "http.request"

ContentLengths(headers) ==
    { k \in 1..Len(headers) : LowerName(headers[k][1]) = "content-length" }

\* C40: for a POST/PUT/PATCH request with a JSON content type on a path
\* that is not skipped, whose body arrives in any number of chunks, the app
\* is called and gets the body once, as the first message of its receive,
\* in one http.request message with more_body false, later messages coming
\* from the server's receive; a body that is not double-encoded is
\* delivered as it was sent; when the body is rewritten the scope has one
\* content-length header, the length of the body delivered.
C40_BodyDeliveredOnce ==
    DjInScope =>
        /\ dj_pc # "raised"
        /\ dj_pc \in { "app", "returned" } =>
              /\ dj_recv = "wrapper"
              /\ \A k \in 1..Len(dj_got) :
                    IF k = 1
                    THEN /\ dj_got[k].via = "wrapper"
                         /\ dj_got[k].msg = RequestMessage(dj_processed, FALSE)
                    ELSE /\ dj_got[k].via = "original"
                         /\ dj_got[k].msg.type = "http.disconnect"
              /\ ~DoubleEncoded(dj_case.body) => dj_processed = dj_case.body
              /\ dj_processed # dj_case.body =>
                    /\ Cardinality(ContentLengths(dj_scope.headers)) = 1
                    /\ \A k \in ContentLengths(dj_scope.headers) :
                          dj_scope.headers[k][2] = Len(dj_processed)

====
